---- MODULE Spec2Model ----
(***************************************************************************)
(* Routing engine of the transportation system: the time-dependent         *)
(* Dijkstra router (traffic_flow/dijkstra_time_dependent.py), Yen's        *)
(* K-shortest-paths (traffic_flow/yen_alternate_routes.py) and the         *)
(* emergency A* router (emergency/astar_emergency.py), over one directed   *)
(* road graph.                                                             *)
(*                                                                         *)
(* A graph is a record                                                     *)
(*   nodes : the node ids of the nx.DiGraph                                *)
(*   adj   : node -> sequence of successors, in the insertion order of the *)
(*           adjacency dict (the order the searches iterate neighbours in) *)
(*   data  : <<u, v>> -> the attribute dict of edge (u, v)                 *)
(*   pos   : node -> <<x, y>> coordinates, or NoCoord                      *)
(* Costs are integers counted in 1/Unit km, so that every congestion       *)
(* factor the routers form (1 + volume/capacity, capped) is exact.         *)
(***************************************************************************)
EXTENDS Integers, Sequences, FiniteSets, TLC

\* graph: the caller's road network; call: the query in progress; ret: what it
\* returned; first: the first query the session took note of, with its result
\* sim: the simulator object, once one has been made
VARIABLES graph, call, ret, first, sim

vars == <<graph, call, ret, first, sim>>

\* ------------------------------------------------------------------ bounds
\* edges of a graph of the Yen and A* families
MaxEdges == 4
\* edges of a graph of the family that also carries a traffic record
MaxTrafficEdges == 3
\* the largest K of a Yen query
MaxK == 4

\* ------------------------------------------------------------- the inputs
Nodes == {1, 2, 3}
\* a node id that is in no graph (the "Z" of a query for an unknown node)
AbsentNode == Cardinality(Nodes \cup {1, 2, 3, 4}) + 1
\* A query names the first node, the last node or the absent node: the graph
\* families hold every relabelling of each of their graphs.
Last(N) == CHOOSE n \in N : \A m \in N : m <= n
QueryNodes(G) == {1, Last(G.nodes), AbsentNode}

\* distance_km values of the edge records
Distances == {0, 5, 12}
\* base_capacity_veh_hr values of the edge records
Capacities == {0, 1000}
\* the volumes a traffic record gives to the four time-of-day buckets
TrafficProfile ==
    [morning_peak_veh_h |-> 4000, afternoon_veh_h |-> 500,
     evening_peak_veh_h |-> 1, night_veh_h |-> 0]
NoTraffic == [none |-> TRUE]
\* X_coordinate, Y_coordinate values of the node records
Points == { <<0, 0>>, <<6, 8>> }
NoCoord == <<>>
\* time_of_day arguments: the four labels, an unknown label, and None
TimesOfDay == {"morning_peak", "afternoon", "evening_peak", "night"}
NoneTime == "None"
TimeArgs == TimesOfDay \cup {"rush_hour", NoneTime}

\* costs are counted in 1/Unit km
Unit == 3 * 10 * 1000

\* ------------------------------------------------------------ sequences
Min(a, b) == IF a <= b THEN a ELSE b

Range(s) == { s[i] : i \in 1..Len(s) }

NoRepeat(s) == \A i, j \in 1..Len(s) : i # j => s[i] # s[j]

\* Python's list comparison p < q (lexicographic, shorter prefix first)
RECURSIVE ListLess(_, _)
ListLess(p, q) ==
    IF q = <<>> THEN FALSE
    ELSE IF p = <<>> THEN TRUE
    ELSE IF Head(p) # Head(q) THEN Head(p) < Head(q)
    ELSE ListLess(Tail(p), Tail(q))

\* all sequences without repetition over the set S
RECURSIVE Arrangements(_)
Arrangements(S) ==
    {<<>>} \cup UNION { { <<x>> \o r : r \in Arrangements(S \ {x}) } : x \in S }

\* ----------------------------------------------------------- the graph
Edges(G) == UNION { { <<u, v>> : v \in Range(G.adj[u]) } : u \in G.nodes }

has_node(G, n) == n \in G.nodes

has_edge(G, u, v) == <<u, v>> \in Edges(G)

\* networkx DiGraph.remove_edge on a copy: the other successors keep their order
remove_edge(G, u, v) ==
    [G EXCEPT !.adj[u] = SelectSeq(G.adj[u], LAMBDA x : x # v)]

\* ------------------------------------------------- networkx: dijkstra_path
\* The entry heappop returns: the least (distance, counter, node) tuple.
HeapMin(fringe) ==
    CHOOSE e \in fringe :
        \A f \in fringe : e[1] < f[1] \/ (e[1] = f[1] /\ e[2] <= f[2])

\* Relax with a slip: a node already seen is never given a shorter distance.
RECURSIVE RelaxFirstSeen(_, _, _, _)
RelaxFirstSeen(st, v, succs, wt) ==
    IF succs = <<>> THEN st
    ELSE LET u == Head(succs)
             vu_dist == st.dist[v] + wt[<<v, u>>]
             next == IF u \in DOMAIN st.dist \/ u \in DOMAIN st.seen THEN st
                     ELSE [st EXCEPT
                             !.seen = (u :> vu_dist) @@ st.seen,
                             !.fringe = st.fringe \cup {<<vu_dist, st.c, u>>},
                             !.c = st.c + 1,
                             !.paths = (u :> Append(st.paths[v], u)) @@ st.paths]
         IN  RelaxFirstSeen(next, v, Tail(succs), wt)

\* The loop over G_succ[v].items(): one relaxation per successor, in order.
RECURSIVE Relax(_, _, _, _)
Relax(st, v, succs, wt) ==
    IF succs = <<>> THEN st
    ELSE LET u == Head(succs)
             vu_dist == st.dist[v] + wt[<<v, u>>]
             next == IF u \in DOMAIN st.dist THEN st
                     ELSE IF u \notin DOMAIN st.seen \/ vu_dist < st.seen[u]
                     THEN [st EXCEPT
                             !.seen = (u :> vu_dist) @@ st.seen,
                             !.fringe = st.fringe \cup {<<vu_dist, st.c, u>>},
                             !.c = st.c + 1,
                             !.paths = (u :> Append(st.paths[v], u)) @@ st.paths]
                     ELSE st
         IN  Relax(next, v, Tail(succs), wt)

\* The while loop of _dijkstra_multisource: pop, finalise, stop at the target.
RECURSIVE DijkstraLoop(_, _, _, _)
DijkstraLoop(st, G, wt, target) ==
    IF st.fringe = {} THEN st
    ELSE LET e == HeapMin(st.fringe)
             v == e[3]
             popped == [st EXCEPT !.fringe = st.fringe \ {e}]
         IN  IF v \in DOMAIN st.dist THEN DijkstraLoop(popped, G, wt, target)
             ELSE LET fin == [popped EXCEPT !.dist = (v :> e[1]) @@ st.dist]
                  IN  IF v = target THEN fin
                      ELSE DijkstraLoop(Relax(fin, v, G.adj[v], wt), G, wt, target)

\* nx.dijkstra_path(G, source, target, weight): the node list of the path found,
\* <<>> when it raises NetworkXNoPath. wt gives the weight of every edge of G.
nx_dijkstra_path(G, source, target, wt) ==
    IF source = target THEN <<source>>
    ELSE LET st0 == [dist |-> <<>>, seen |-> (source :> 0),
                     fringe |-> {<<0, 0, source>>}, c |-> 1,
                     paths |-> (source :> <<source>>)]
             st == DijkstraLoop(st0, G, wt, target)
         IN  IF target \in DOMAIN st.dist THEN st.paths[target] ELSE <<>>

\* ------------------------------------------------ dijkstra_time_dependent
\* get_edge_weight with a slip: the factor is the bare ratio, without the 1.
get_edge_weight_ratio(data, time_dependent, time_of_day) ==
    IF time_dependent /\ time_of_day \in TimesOfDay /\ data.traffic # NoTraffic
    THEN LET traffic_flow ==
                 CASE time_of_day = "morning_peak" -> data.traffic.morning_peak_veh_h
                   [] time_of_day = "afternoon" -> data.traffic.afternoon_veh_h
                   [] time_of_day = "evening_peak" -> data.traffic.evening_peak_veh_h
                   [] time_of_day = "night" -> data.traffic.night_veh_h
             capacity == IF data.base_capacity_veh_hr = 0 THEN 1
                         ELSE data.base_capacity_veh_hr
         IN  data.distance_km * Min((Unit * traffic_flow) \div capacity, 5 * Unit)
    ELSE data.distance_km * Unit

\* get_edge_weight with a slip: the congestion factor is not capped.
get_edge_weight_uncapped(data, time_dependent, time_of_day) ==
    IF time_dependent /\ time_of_day \in TimesOfDay /\ data.traffic # NoTraffic
    THEN LET traffic_flow ==
                 CASE time_of_day = "morning_peak" -> data.traffic.morning_peak_veh_h
                   [] time_of_day = "afternoon" -> data.traffic.afternoon_veh_h
                   [] time_of_day = "evening_peak" -> data.traffic.evening_peak_veh_h
                   [] time_of_day = "night" -> data.traffic.night_veh_h
             capacity == IF data.base_capacity_veh_hr = 0 THEN 1
                         ELSE data.base_capacity_veh_hr
         IN  data.distance_km * (Unit + (Unit * traffic_flow) \div capacity)
    ELSE data.distance_km * Unit

\* get_edge_weight(u, v, data) for weight_key = "distance_km", in 1/Unit km
get_edge_weight(data, time_dependent, time_of_day) ==
    LET base_weight == data.distance_km
    IN  IF time_dependent /\ time_of_day # NoneTime
           /\ time_of_day \in TimesOfDay /\ data.traffic # NoTraffic
        THEN LET traffic_flow ==
                     CASE time_of_day = "morning_peak" -> data.traffic.morning_peak_veh_h
                       [] time_of_day = "afternoon" -> data.traffic.afternoon_veh_h
                       [] time_of_day = "evening_peak" -> data.traffic.evening_peak_veh_h
                       [] time_of_day = "night" -> data.traffic.night_veh_h
                 capacity == IF data.base_capacity_veh_hr = 0 THEN 1
                             ELSE data.base_capacity_veh_hr
                 congestion_factor == Min(Unit + (Unit * traffic_flow) \div capacity,
                                          5 * Unit)
             IN  base_weight * congestion_factor
        ELSE base_weight * Unit

\* the (None, None) both failure branches return
NoneNone == [none |-> TRUE]

\* PathLength with a slip: the base weights are added up, not the effective ones.
RECURSIVE PathLengthBase(_, _, _, _, _)
PathLengthBase(G, path, i, time_dependent, time_of_day) ==
    IF i >= Len(path) THEN 0
    ELSE G.data[<<path[i], path[i + 1]>>].distance_km * Unit
         + PathLengthBase(G, path, i + 1, time_dependent, time_of_day)

\* the loop that adds up the weights of the path's edges (lines 162-166)
RECURSIVE PathLength(_, _, _, _, _)
PathLength(G, path, i, time_dependent, time_of_day) ==
    IF i >= Len(path) THEN 0
    ELSE get_edge_weight(G.data[<<path[i], path[i + 1]>>], time_dependent, time_of_day)
         + PathLength(G, path, i + 1, time_dependent, time_of_day)

\* dijkstra_time_dependent with a slip: NetworkXNoPath is not caught, the call
\* ends by raising it.
dijkstra_time_dependent_uncaught(G, source, target, time_dependent, time_of_day) ==
    IF ~has_node(G, source) \/ ~has_node(G, target) THEN NoneNone
    ELSE LET wt == [e \in Edges(G) |->
                       get_edge_weight(G.data[e], time_dependent, time_of_day)]
             path == nx_dijkstra_path(G, source, target, wt)
         IN  IF path = <<>> THEN [raised |-> "NetworkXNoPath"]
             ELSE [path |-> path,
                   length |-> PathLength(G, path, 1, time_dependent, time_of_day)]

dijkstra_time_dependent(G, source, target, time_dependent, time_of_day) ==
    IF ~has_node(G, source) \/ ~has_node(G, target) THEN NoneNone
    ELSE LET wt == [e \in Edges(G) |->
                       get_edge_weight(G.data[e], time_dependent, time_of_day)]
             path == nx_dijkstra_path(G, source, target, wt)
         IN  IF path = <<>> THEN NoneNone
             ELSE [path |-> path,
                   length |-> PathLength(G, path, 1, time_dependent, time_of_day)]

\* --------------------------------------------------- yen_k_shortest_paths
\* get_path_length(path, graph, "distance_km"): the sum of the edges' distance_km
\* (in km), from index i on
RECURSIVE get_path_length(_, _, _)
get_path_length(path, G, i) ==
    IF i >= Len(path) THEN 0
    ELSE G.data[<<path[i], path[i + 1]>>].distance_km + get_path_length(path, G, i + 1)

\* nx_weight with a slip: the morning-peak congested weight is the search weight.
nx_weight_congested(G) ==
    [e \in Edges(G) |-> get_edge_weight(G.data[e], TRUE, "morning_peak")]

\* weight="distance_km" as networkx reads it: the attribute of every edge
nx_weight(G) == [e \in Edges(G) |-> G.data[e].distance_km]

PathsOf(A) == { A[j][2] : j \in 1..Len(A) }

\* Lines 134-140: the copy of the graph without the edge that each accepted
\* path sharing the root path takes out of the spur node. i is the 1-based
\* position of the spur node (Python's i + 1).
RECURSIVE RemoveRootEdges(_, _, _, _, _)
RemoveRootEdges(temp_graph, A, j, root_path, i) ==
    IF j > Len(A) THEN temp_graph
    ELSE LET path_val == A[j][2]
             next == IF Len(path_val) >= i /\ SubSeq(path_val, 1, i) = root_path
                        /\ has_edge(temp_graph, path_val[i], path_val[i + 1])
                     THEN remove_edge(temp_graph, path_val[i], path_val[i + 1])
                     ELSE temp_graph
         IN  RemoveRootEdges(next, A, j + 1, root_path, i)

\* temp_graph = graph.copy() (line 128). A graph object is modelled by its
\* content; same_object tells whether the two names denote one object.
graph_same(G) == [graph |-> G, temp_graph |-> G, same_object |-> TRUE]

graph_copy(G) == [graph |-> G, temp_graph |-> G, same_object |-> FALSE]

\* CallerGraph with a slip: the search goes on with the reduced graph.
CallerGraphReduced(objects, temp_graph) == temp_graph

\* the caller's graph once the removals have made temp_graph what it is
CallerGraph(objects, temp_graph) ==
    IF objects.same_object THEN temp_graph ELSE objects.graph

\* Lines 122-173: one spur search per node of prev_path but the last; each new
\* total path that is not in A is pushed onto B. B is the heap's item list;
\* graph is the caller's graph after the searches.
RECURSIVE SpurLoop(_, _, _, _, _, _)
SpurLoop(G, A, B, prev_path, i, target) ==
    IF i >= Len(prev_path) THEN [B |-> B, graph |-> G]
    ELSE LET spur_node == prev_path[i]
             root_path == SubSeq(prev_path, 1, i)
             objects == graph_copy(G)
             temp_graph == RemoveRootEdges(objects.temp_graph, A, 1, root_path, i)
             spur_path == nx_dijkstra_path(temp_graph, spur_node, target,
                                           nx_weight(temp_graph))
             total_path == SubSeq(root_path, 1, i - 1) \o spur_path
             total_path_len == get_path_length(total_path, G, 1)
             pushed == IF spur_path # <<>> /\ total_path \notin PathsOf(A)
                       THEN Append(B, <<total_path_len, total_path>>)
                       ELSE B
         IN  SpurLoop(CallerGraph(objects, temp_graph), A, pushed, prev_path,
                      i + 1, target)

\* Python's tuple order on (length, path)
ItemLess(x, y) == x[1] < y[1] \/ (x[1] = y[1] /\ ListLess(x[2], y[2]))

\* the position in B of the item heappop returns
HeapTop(B) == CHOOSE m \in 1..Len(B) : \A n \in 1..Len(B) : ~ItemLess(B[n], B[m])

RemoveAt(s, m) == SubSeq(s, 1, m - 1) \o SubSeq(s, m + 1, Len(s))

\* PopUnique with a slip: the popped item is appended without looking into A.
PopAny(A, B) ==
    IF B = <<>> THEN [A |-> A, B |-> B, added_to_A |-> FALSE]
    ELSE LET m == HeapTop(B)
         IN  [A |-> Append(A, B[m]), B |-> RemoveAt(B, m), added_to_A |-> TRUE]

\* Lines 183-193: pop until an item whose path is not in A is appended to A
RECURSIVE PopUnique(_, _)
PopUnique(A, B) ==
    IF B = <<>> THEN [A |-> A, B |-> B, added_to_A |-> FALSE]
    ELSE LET m == HeapTop(B)
             rest == RemoveAt(B, m)
         IN  IF B[m][2] \notin PathsOf(A)
             THEN [A |-> Append(A, B[m]), B |-> rest, added_to_A |-> TRUE]
             ELSE PopUnique(A, rest)

\* Lines 115-196: the iterations k = 1 .. K-1 with their three breaks
RECURSIVE YenLoop(_, _, _, _, _, _)
YenLoop(G, A, B, k, K, target) ==
    IF k >= K \/ A = <<>> THEN [A |-> A, graph |-> G]
    ELSE LET prev_path == A[k][2]
             s == SpurLoop(G, A, B, prev_path, 1, target)
         IN  IF s.B = <<>> THEN [A |-> A, graph |-> s.graph]
             ELSE LET r == PopUnique(A, s.B)
                  IN  IF ~r.added_to_A /\ r.B = <<>> THEN [A |-> r.A, graph |-> s.graph]
                      ELSE YenLoop(s.graph, r.A, r.B, k + 1, K, target)

\* InsertByLength with a slip: an item goes before the items of equal length.
RECURSIVE InsertBeforeEqual(_, _)
InsertBeforeEqual(sorted, x) ==
    IF sorted = <<>> THEN <<x>>
    ELSE IF x[1] <= Head(sorted)[1] THEN <<x>> \o sorted
    ELSE <<Head(sorted)>> \o InsertBeforeEqual(Tail(sorted), x)

\* SortByLength with a slip: A is left in the order of acceptance.
AcceptanceOrder(A) == A

\* list.sort(key=lambda x: x[0]): a stable sort by length
RECURSIVE InsertByLength(_, _)
InsertByLength(sorted, x) ==
    IF sorted = <<>> THEN <<x>>
    ELSE IF x[1] < Head(sorted)[1] THEN <<x>> \o sorted
    ELSE <<Head(sorted)>> \o InsertByLength(Tail(sorted), x)

RECURSIVE SortByLength(_)
SortByLength(A) ==
    IF A = <<>> THEN <<>>
    ELSE InsertByLength(SortByLength(SubSeq(A, 1, Len(A) - 1)), A[Len(A)])

\* Python's slice A[:K], also for K < 0
SliceTo(A, K) ==
    IF K >= 0 THEN SubSeq(A, 1, Min(K, Len(A))) ELSE SubSeq(A, 1, Len(A) + K)

\* Lines 198-200: what is returned from the accepted list A
YenResult(A, K) ==
    LET top == SliceTo(SortByLength(A), K)
    IN  [j \in 1..Len(top) |-> top[j][2]]

\* the whole call: the list returned and the caller's graph afterwards
YenCall(G, source, target, K) ==
    IF ~has_node(G, source) \/ ~has_node(G, target) THEN [paths |-> <<>>, graph |-> G]
    ELSE LET first_path == nx_dijkstra_path(G, source, target, nx_weight(G))
         IN  IF first_path = <<>> THEN [paths |-> <<>>, graph |-> G]
             ELSE LET r == YenLoop(G, <<<<get_path_length(first_path, G, 1),
                                        first_path>>>>, <<>>, 1, K, target)
                  IN  [paths |-> YenResult(r.A, K), graph |-> r.graph]

yen_k_shortest_paths(G, source, target, K) == YenCall(G, source, target, K).paths

\* ------------------------------------------------- a_star_emergency_path
\* math.sqrt on the sums of squares the coordinates of Points give
Sqrt(n) == CHOOSE r \in 0..n : r * r = n

\* heuristic_distance with a slip: a missing coordinate is read as the origin.
heuristic_distance_origin(G, node1_id, node2_id) ==
    LET p1 == IF G.pos[node1_id] = NoCoord THEN <<0, 0>> ELSE G.pos[node1_id]
        p2 == IF G.pos[node2_id] = NoCoord THEN <<0, 0>> ELSE G.pos[node2_id]
    IN  Sqrt((p1[1] - p2[1]) * (p1[1] - p2[1]) + (p1[2] - p2[2]) * (p1[2] - p2[2]))

\* heuristic_distance(graph, node1_id, node2_id), in km
heuristic_distance(G, node1_id, node2_id) ==
    LET p1 == G.pos[node1_id]
        p2 == G.pos[node2_id]
    IN  IF p1 # NoCoord /\ p2 # NoCoord
        THEN Sqrt((p1[1] - p2[1]) * (p1[1] - p2[1]) + (p1[2] - p2[2]) * (p1[2] - p2[2]))
        ELSE 0

\* get_dynamic_edge_weight with a slip: an edge of capacity 0 is left uncongested.
get_dynamic_edge_weight_skip0(data, time_dependent, time_of_day, priority) ==
    LET base_weight == data.distance_km
        effective_weight ==
            IF time_dependent /\ time_of_day # NoneTime
               /\ time_of_day \in TimesOfDay /\ data.traffic # NoTraffic
               /\ data.base_capacity_veh_hr # 0
            THEN LET traffic_flow ==
                         CASE time_of_day = "morning_peak" -> data.traffic.morning_peak_veh_h
                           [] time_of_day = "afternoon" -> data.traffic.afternoon_veh_h
                           [] time_of_day = "evening_peak" -> data.traffic.evening_peak_veh_h
                           [] time_of_day = "night" -> data.traffic.night_veh_h
                     capacity == data.base_capacity_veh_hr
                 IN  base_weight
                     * Min(Unit + (2 * Unit * traffic_flow) \div (3 * capacity), 3 * Unit)
            ELSE base_weight * Unit
    IN  (effective_weight * priority) \div 10

\* get_dynamic_edge_weight with a slip: the ordinary ceiling 5.0 is used.
get_dynamic_edge_weight_cap5(data, time_dependent, time_of_day, priority) ==
    LET base_weight == data.distance_km
        effective_weight ==
            IF time_dependent /\ time_of_day # NoneTime
               /\ time_of_day \in TimesOfDay /\ data.traffic # NoTraffic
            THEN LET traffic_flow ==
                         CASE time_of_day = "morning_peak" -> data.traffic.morning_peak_veh_h
                           [] time_of_day = "afternoon" -> data.traffic.afternoon_veh_h
                           [] time_of_day = "evening_peak" -> data.traffic.evening_peak_veh_h
                           [] time_of_day = "night" -> data.traffic.night_veh_h
                     capacity == IF data.base_capacity_veh_hr = 0 THEN 1
                                 ELSE data.base_capacity_veh_hr
                 IN  base_weight
                     * Min(Unit + (2 * Unit * traffic_flow) \div (3 * capacity), 5 * Unit)
            ELSE base_weight * Unit
    IN  (effective_weight * priority) \div 10

\* get_dynamic_edge_weight(u, v, data) for weight_key = "distance_km", in
\* 1/Unit km; the emergency_priority_factor is priority / 10
get_dynamic_edge_weight(data, time_dependent, time_of_day, priority) ==
    LET base_weight == data.distance_km
        effective_weight ==
            IF time_dependent /\ time_of_day # NoneTime
               /\ time_of_day \in TimesOfDay /\ data.traffic # NoTraffic
            THEN LET traffic_flow ==
                         CASE time_of_day = "morning_peak" -> data.traffic.morning_peak_veh_h
                           [] time_of_day = "afternoon" -> data.traffic.afternoon_veh_h
                           [] time_of_day = "evening_peak" -> data.traffic.evening_peak_veh_h
                           [] time_of_day = "night" -> data.traffic.night_veh_h
                     capacity == IF data.base_capacity_veh_hr = 0 THEN 1
                                 ELSE data.base_capacity_veh_hr
                     \* 1 + traffic_flow / (capacity * 1.5)
                     congestion_factor ==
                         Min(Unit + (2 * Unit * traffic_flow) \div (3 * capacity), 3 * Unit)
                 IN  base_weight * congestion_factor
            ELSE base_weight * Unit
    IN  (effective_weight * priority) \div 10

\* networkx astar_path. A queue entry is <<priority, counter, node, dist, parent>>;
\* parent 0 is None; enqueued[n] = <<cost, h>>; explored[n] = parent.
QueueMin(queue) ==
    CHOOSE e \in queue :
        \A f \in queue : e[1] < f[1] \/ (e[1] = f[1] /\ e[2] <= f[2])

\* AStarExpand with a slip: a node already enqueued is never given a lower cost.
RECURSIVE AStarExpandFirstCost(_, _, _, _, _, _)
AStarExpandFirstCost(st, curnode, dist, succs, wt, h) ==
    IF succs = <<>> THEN st
    ELSE LET neighbor == Head(succs)
             ncost == dist + wt[<<curnode, neighbor>>]
             next == IF neighbor \in DOMAIN st.enqueued THEN st
                     ELSE [st EXCEPT
                             !.enqueued = (neighbor :> <<ncost, h[neighbor]>>)
                                          @@ st.enqueued,
                             !.queue = st.queue \cup
                                       {<<ncost + h[neighbor], st.c, neighbor, ncost,
                                          curnode>>},
                             !.c = st.c + 1]
         IN  AStarExpandFirstCost(next, curnode, dist, Tail(succs), wt, h)

RECURSIVE AStarExpand(_, _, _, _, _, _)
AStarExpand(st, curnode, dist, succs, wt, h) ==
    IF succs = <<>> THEN st
    ELSE LET neighbor == Head(succs)
             ncost == dist + wt[<<curnode, neighbor>>]
             known == neighbor \in DOMAIN st.enqueued
             hn == IF known THEN st.enqueued[neighbor][2] ELSE h[neighbor]
             next == IF known /\ st.enqueued[neighbor][1] <= ncost THEN st
                     ELSE [st EXCEPT
                             !.enqueued = (neighbor :> <<ncost, hn>>) @@ st.enqueued,
                             !.queue = st.queue \cup
                                       {<<ncost + hn, st.c, neighbor, ncost, curnode>>},
                             !.c = st.c + 1]
         IN  AStarExpand(next, curnode, dist, Tail(succs), wt, h)

\* the walk back from the target along explored[], already reversed
RECURSIVE AStarTrace(_, _)
AStarTrace(explored, node) ==
    IF node = 0 THEN <<>> ELSE Append(AStarTrace(explored, explored[node]), node)

RECURSIVE AStarLoop(_, _, _, _, _)
AStarLoop(st, G, wt, h, target) ==
    IF st.queue = {} THEN <<>>
    ELSE LET e == QueueMin(st.queue)
             curnode == e[3]
             dist == e[4]
             parent == e[5]
             popped == [st EXCEPT !.queue = st.queue \ {e}]
         IN  IF curnode = target
             THEN Append(AStarTrace(st.explored, parent), curnode)
             ELSE IF curnode \in DOMAIN st.explored
                     /\ (st.explored[curnode] = 0 \/ st.enqueued[curnode][1] < dist)
             THEN AStarLoop(popped, G, wt, h, target)
             ELSE LET ex == [popped EXCEPT
                               !.explored = (curnode :> parent) @@ st.explored]
                  IN  AStarLoop(AStarExpand(ex, curnode, dist, G.adj[curnode], wt, h),
                                G, wt, h, target)

\* nx.astar_path(G, source, target, heuristic, weight): <<>> for NetworkXNoPath
nx_astar_path(G, source, target, h, wt) ==
    AStarLoop([queue |-> {<<0, 0, source, 0, 0>>}, c |-> 1,
               enqueued |-> <<>>, explored |-> <<>>], G, wt, h, target)

\* AStarLength with a slip: the length is the sum of the base weights.
RECURSIVE AStarLengthBase(_, _, _, _, _, _)
AStarLengthBase(G, path, i, time_dependent, time_of_day, priority) ==
    IF i >= Len(path) THEN 0
    ELSE G.data[<<path[i], path[i + 1]>>].distance_km * Unit
         + AStarLengthBase(G, path, i + 1, time_dependent, time_of_day, priority)

\* lines 140-144: the sum of the dynamic weights of the path's edges
RECURSIVE AStarLength(_, _, _, _, _, _)
AStarLength(G, path, i, time_dependent, time_of_day, priority) ==
    IF i >= Len(path) THEN 0
    ELSE get_dynamic_edge_weight(G.data[<<path[i], path[i + 1]>>],
                                 time_dependent, time_of_day, priority)
         + AStarLength(G, path, i + 1, time_dependent, time_of_day, priority)

a_star_emergency_path(G, source, target, time_dependent, time_of_day, priority) ==
    IF ~has_node(G, source) \/ ~has_node(G, target) THEN NoneNone
    ELSE LET wt == [e \in Edges(G) |->
                       get_dynamic_edge_weight(G.data[e], time_dependent,
                                               time_of_day, priority)]
             h == [n \in G.nodes |->
                       (heuristic_distance(G, n, target) * Unit * priority) \div 10]
             path == nx_astar_path(G, source, target, h, wt)
         IN  IF path = <<>> THEN NoneNone
             ELSE [path |-> path,
                   length |-> AStarLength(G, path, 1, time_dependent,
                                          time_of_day, priority)]

\* ------------------------------------------------------- the state machine
\* The graphs on the node set N with at most maxE edges: every insertion order
\* of every node's successors, every distance of Distances on every edge.
NumEdges(adj) == Cardinality(Edges([nodes |-> DOMAIN adj, adj |-> adj]))

Adjacencies(N, maxE) ==
    { adj \in [N -> Arrangements(N)] :
        /\ \A n \in N : n \notin Range(adj[n])
        /\ NumEdges(adj) <= maxE }

AdjEdges(adj) == Edges([nodes |-> DOMAIN adj, adj |-> adj])

PlainEdge(d) == [distance_km |-> d, base_capacity_veh_hr |-> 1000, traffic |-> NoTraffic]

\* the graph with adjacency adj, distance dist[e] on edge e and coordinates pos
MakeGraph(adj, dist, pos) ==
    [nodes |-> DOMAIN adj, adj |-> adj,
     data |-> [e \in AdjEdges(adj) |-> PlainEdge(dist[e])],
     pos |-> pos]

NoCoordinates(adj) == [n \in DOMAIN adj |-> NoCoord]

\* The traffic augmentation of the loader (lines 101-108): the traffic record
\* of edge e gives it the four volume buckets; the capacity is the edge record's.
WithTraffic(G, e, capacity, profile) ==
    [G EXCEPT !.data[e].base_capacity_veh_hr = capacity, !.data[e].traffic = profile]

\* the two-route network 1 -> {2, 3} -> 4, both orders of the routes
Diamond == { <<<<2, 3>>, <<4>>, <<4>>, <<>>>>, <<<<3, 2>>, <<4>>, <<4>>, <<>>>> }

\* four nodes, two routes from 1 to 4 and a road from one route to the other
Lattice == { <<<<2, 3>>, <<4, 3>>, <<4>>, <<>>>>, <<<<3, 2>>, <<3, 4>>, <<4>>, <<>>>> }

Idle == [op |-> "idle"]
NoResult == [idle |-> TRUE]
NoCall == [noted |-> FALSE]
\* no simulator has been made
NoSimulator == [none |-> TRUE]

\* the (time_dependent, time_of_day) arguments of a query
TimeModes ==
    ({FALSE} \X {NoneTime, "morning_peak"}) \cup ({TRUE} \X TimeArgs)

\* a graph with at most one traffic record
InitDijkstra ==
    /\ \E adj \in Adjacencies(Nodes, MaxTrafficEdges) :
         \E dist \in [AdjEdges(adj) -> Distances] :
           LET G == MakeGraph(adj, dist, NoCoordinates(adj))
           IN  \/ graph = G
               \/ \E e \in AdjEdges(adj), c \in Capacities :
                    graph = WithTraffic(G, e, c, TrafficProfile)
    /\ call = Idle
    /\ ret = NoResult
    /\ first = NoCall
    /\ sim = NoSimulator

InitYen ==
    /\ \E adj \in Adjacencies(Nodes, MaxEdges) \cup Lattice :
         \E dist \in [AdjEdges(adj) -> Distances] :
           graph = MakeGraph(adj, dist, NoCoordinates(adj))
    /\ call = Idle
    /\ ret = NoResult
    /\ first = NoCall
    /\ sim = NoSimulator

\* every assignment of coordinates (or none) to the nodes
InitAStar ==
    /\ \E adj \in Adjacencies(Nodes, MaxEdges) \cup Diamond :
         \E dist \in [AdjEdges(adj) -> Distances] :
           \E pos \in [DOMAIN adj -> Points \cup {NoCoord}] :
             graph = MakeGraph(adj, dist, pos)
    /\ call = Idle
    /\ ret = NoResult
    /\ first = NoCall
    /\ sim = NoSimulator

CallDijkstra ==
    /\ call = Idle
    /\ \E s \in QueryNodes(graph), t \in QueryNodes(graph), tm \in TimeModes :
         /\ call' = [op |-> "dijkstra", source |-> s, target |-> t,
                     time_dependent |-> tm[1], time_of_day |-> tm[2]]
         /\ ret' = dijkstra_time_dependent(graph, s, t, tm[1], tm[2])
    /\ UNCHANGED <<graph, first, sim>>

CallYen ==
    /\ call = Idle
    /\ \E s \in QueryNodes(graph), t \in QueryNodes(graph), K \in -1..MaxK :
         /\ call' = [op |-> "yen", source |-> s, target |-> t, K |-> K]
         /\ ret' = yen_k_shortest_paths(graph, s, t, K)
         /\ graph' = YenCall(graph, s, t, K).graph
    /\ UNCHANGED <<first, sim>>

\* emergency_priority_factor = 1.0, no time dependency
CallAStar ==
    /\ call = Idle
    /\ \E s \in QueryNodes(graph), t \in QueryNodes(graph) :
         /\ call' = [op |-> "astar", source |-> s, target |-> t,
                     time_dependent |-> FALSE, time_of_day |-> NoneTime,
                     priority |-> 10]
         /\ ret' = a_star_emergency_path(graph, s, t, FALSE, NoneTime, 10)
    /\ UNCHANGED <<graph, first, sim>>

\* the caller takes the result; the next query starts from the same graph
Return ==
    /\ call # Idle
    /\ call' = Idle
    /\ ret' = NoResult
    /\ UNCHANGED <<graph, first, sim>>

NextDijkstra == CallDijkstra \/ Return

NextYen == CallYen \/ Return

NextAStar == CallAStar \/ Return

SpecDijkstra == InitDijkstra /\ [][NextDijkstra]_vars

SpecYen == InitYen /\ [][NextYen]_vars

SpecAStar == InitAStar /\ [][NextAStar]_vars

\* ------------------------------------------------- one edge weighed alone
\* volumes and capacities around the points where the two ceilings are met
Volumes == {0, 1, 2, 3, 4, 500, 3000, 4000, 10000}

WeighedCapacities == {0, 1, 1000, 2000}

\* emergency_priority_factor in tenths: 0.5, 0.8, 1.0
Priorities == {5, 8, 10}

\* the edge record 1 -> 2 with its own morning and evening volumes
InitWeight ==
    /\ \E d \in Distances, c \in WeighedCapacities, vm \in Volumes, ve \in Volumes :
         graph = WithTraffic(MakeGraph(<<<<2>>, <<>>>>, [e \in {<<1, 2>>} |-> d],
                                       <<NoCoord, NoCoord>>),
                             <<1, 2>>, c,
                             [TrafficProfile EXCEPT !.morning_peak_veh_h = vm,
                                                    !.evening_peak_veh_h = ve])
    /\ call = Idle
    /\ ret = NoResult
    /\ first = NoCall
    /\ sim = NoSimulator

\* both routers' weight functions applied to the edge
WeighEdge ==
    /\ call = Idle
    /\ \E tm \in TimeModes, p \in Priorities :
         /\ call' = [op |-> "weight", time_dependent |-> tm[1], time_of_day |-> tm[2],
                     priority |-> p]
         /\ ret' = [ordinary |-> get_edge_weight(graph.data[<<1, 2>>], tm[1], tm[2]),
                    emergency |-> get_dynamic_edge_weight(graph.data[<<1, 2>>],
                                                          tm[1], tm[2], p)]
    /\ UNCHANGED <<graph, first, sim>>

NextWeight == WeighEdge \/ Return

SpecWeight == InitWeight /\ [][NextWeight]_vars

\* ---------------------------------------- emergency queries with arguments
\* emergency_priority_factor in tenths, 0 included: nothing in the code
\* keeps a caller from passing it
EmergencyPriorities == {0, 5, 10}

EmergencyTimeModes ==
    { <<FALSE, NoneTime>>, <<TRUE, "morning_peak">>, <<TRUE, "afternoon">>,
      <<TRUE, "rush_hour">> }

\* road lengths in km
RoadLengths == {5, 12}

\* no coordinates at all, coordinates missing on one node, coordinates everywhere
Positions(adj) ==
    { NoCoordinates(adj),
      [n \in DOMAIN adj |-> IF n = Last(DOMAIN adj) THEN NoCoord
                            ELSE IF n = 1 THEN <<0, 0>> ELSE <<6, 8>>],
      [n \in DOMAIN adj |-> IF n = 2 THEN <<6, 8>> ELSE <<0, 0>>] }

InitEmergency ==
    /\ \E adj \in Adjacencies(Nodes, MaxTrafficEdges) :
         \E dist \in [AdjEdges(adj) -> RoadLengths], pos \in Positions(adj) :
           LET G == MakeGraph(adj, dist, pos)
           IN  \/ graph = G
               \/ \E e \in AdjEdges(adj), capacity \in {0, 1000} :
                    graph = WithTraffic(G, e, capacity, TrafficProfile)
    /\ call = Idle
    /\ ret = NoResult
    /\ first = NoCall
    /\ sim = NoSimulator

CallEmergency ==
    /\ call = Idle
    /\ \E s \in QueryNodes(graph), t \in QueryNodes(graph),
          tm \in EmergencyTimeModes, p \in EmergencyPriorities :
         /\ call' = [op |-> "astar", source |-> s, target |-> t,
                     time_dependent |-> tm[1], time_of_day |-> tm[2],
                     priority |-> p]
         /\ ret' = a_star_emergency_path(graph, s, t, tm[1], tm[2], p)
    /\ UNCHANGED <<graph, first, sim>>

NextEmergency == CallEmergency \/ Return

SpecEmergency == InitEmergency /\ [][NextEmergency]_vars

\* ------------------------------------------- the three routers on one graph
\* the loader's traffic augmentation with a traffic record for every edge
WithTrafficEverywhere(G) ==
    [G EXCEPT !.data = [e \in DOMAIN G.data |->
                           [G.data[e] EXCEPT !.traffic = TrafficProfile]]]

InitRouting ==
    /\ \E adj \in Adjacencies(Nodes, MaxTrafficEdges) \cup Lattice :
         \E dist \in [AdjEdges(adj) -> RoadLengths] :
           LET G == MakeGraph(adj, dist, [n \in DOMAIN adj |->
                                             IF n = 2 THEN <<6, 8>> ELSE <<0, 0>>])
           IN  graph \in {G, WithTrafficEverywhere(G)}
    /\ call = Idle
    /\ ret = NoResult
    /\ first = NoCall
    /\ sim = NoSimulator

NextRouting == CallDijkstra \/ CallYen \/ CallEmergency \/ Return

SpecRouting == InitRouting /\ [][NextRouting]_vars

\* ------------------------------------------------------ a session of queries
\* the four-node network, its roads 5 km long but for the road 1 -> 3
InitSession ==
    /\ \E adj \in Lattice, d \in RoadLengths :
         LET G == MakeGraph(adj, [e \in AdjEdges(adj) |-> IF e = <<1, 3>> THEN d ELSE 5],
                            [n \in DOMAIN adj |-> IF n = 2 THEN <<6, 8>> ELSE <<0, 0>>])
         IN  graph \in {G, WithTrafficEverywhere(G)}
    /\ call = Idle
    /\ ret = NoResult
    /\ first = NoCall
    /\ sim = NoSimulator

\* the caller takes the result and the session takes note of the query, once
Note ==
    /\ call # Idle
    /\ first = NoCall
    /\ sim = NoSimulator
    /\ first' = [noted |-> TRUE, call |-> call, ret |-> ret]
    /\ call' = Idle
    /\ ret' = NoResult
    /\ UNCHANGED <<graph, sim>>

NextSession == CallDijkstra \/ CallYen \/ CallEmergency \/ Note \/ Return

SpecSession == InitSession /\ [][NextSession]_vars

\* ------------------------------------------------------- loading a network
\* Node ids are numbers here; the ids of FacilityIds stand for the ids that
\* start with "F".
FacilityIds == {4}

StartsWithF(node) == node \in FacilityIds

\* nx.DiGraph(): nodes in insertion order, successors in insertion order
EmptyGraph == [nodes |-> {}, order |-> <<>>, adj |-> <<>>, data |-> <<>>, pos |-> <<>>]

\* the loader's return value None
NoGraph == [none |-> TRUE]

\* graph.add_node(n, **attrs): a new node, or new attributes on a known one
add_node(G, n, p) ==
    IF n \in G.nodes
    THEN [G EXCEPT !.pos[n] = IF p # NoCoord THEN p ELSE @]
    ELSE [G EXCEPT !.nodes = @ \cup {n}, !.order = Append(@, n),
                   !.adj = (n :> <<>>) @@ @, !.pos = (n :> p) @@ @]

\* graph.nodes[n].update(attrs)
update_node(G, n, p) == [G EXCEPT !.pos[n] = IF p # NoCoord THEN p ELSE @]

\* graph.add_edge(u, v, **attrs): a new edge, or new attributes on a known
\* one, whose other attributes (the traffic volumes) stay
add_edge(G, u, v, distance_km, base_capacity_veh_hr) ==
    LET G1 == add_node(add_node(G, u, NoCoord), v, NoCoord)
    IN  IF <<u, v>> \in DOMAIN G1.data
        THEN [G1 EXCEPT !.data[<<u, v>>].distance_km = distance_km,
                        !.data[<<u, v>>].base_capacity_veh_hr = base_capacity_veh_hr]
        ELSE [G1 EXCEPT !.adj[u] = Append(@, v),
                        !.data = (<<u, v>> :> [distance_km |-> distance_km,
                                               base_capacity_veh_hr |-> base_capacity_veh_hr,
                                               traffic |-> NoTraffic]) @@ @]

\* the loop over road_data["nodes"]
RECURSIVE AddNodes(_, _, _)
AddNodes(G, nodes, i) ==
    IF i > Len(nodes) THEN G
    ELSE AddNodes(add_node(G, nodes[i].ID, nodes[i].pos), nodes, i + 1)

\* dijkstra_time_dependent.py lines 46-62: the first node, in the order of
\* graph.nodes, of least distance to the facility among the nodes whose id
\* does not start with "F" and that have coordinates; 0 when there is none
RECURSIVE NearestNode(_, _, _, _)
NearestNode(G, p, i, best) ==
    IF i > Len(G.order) THEN best
    ELSE LET node == G.order[i]
             q == G.pos[node]
             dist == Sqrt((p[1] - q[1]) * (p[1] - q[1]) + (p[2] - q[2]) * (p[2] - q[2]))
         IN  IF StartsWithF(node) \/ q = NoCoord THEN NearestNode(G, p, i + 1, best)
             ELSE IF best.nearest_node = 0 \/ dist < best.min_distance
             THEN NearestNode(G, p, i + 1, [nearest_node |-> node, min_distance |-> dist])
             ELSE NearestNode(G, p, i + 1, best)

\* the loop over the facility records; access_roads is TRUE in
\* get_traffic_graph, which joins each facility that has coordinates to its
\* nearest node by a road in each direction (lines 44-76)
RECURSIVE AddFacilities(_, _, _, _)
AddFacilities(G, facilities, i, access_roads) ==
    IF i > Len(facilities) THEN G
    ELSE LET facility_id == facilities[i].ID
             G1 == IF facility_id \notin G.nodes
                   THEN add_node(G, facility_id, facilities[i].pos)
                   ELSE update_node(G, facility_id, facilities[i].pos)
             best == NearestNode(G1, facilities[i].pos, 1,
                                 [nearest_node |-> 0, min_distance |-> 0])
             G2 == IF access_roads /\ facilities[i].pos # NoCoord /\ best.nearest_node # 0
                   THEN add_edge(add_edge(G1, facility_id, best.nearest_node,
                                          best.min_distance * 100, 2000),
                                 best.nearest_node, facility_id,
                                 best.min_distance * 100, 2000)
                   ELSE G1
         IN  AddFacilities(G2, facilities, i + 1, access_roads)

\* the loop over road_data["edges"]: an endpoint that is not a node yet is
\* added as a node; both_directions is TRUE in get_emergency_graph
RECURSIVE AddRoads(_, _, _, _)
AddRoads(G, edges, i, both_directions) ==
    IF i > Len(edges) THEN G
    ELSE LET u == edges[i].FromID
             v == edges[i].ToID
             G1 == add_node(add_node(G, u, NoCoord), v, NoCoord)
             G2 == add_edge(G1, u, v, edges[i].Distance_km,
                            edges[i].Current_Capacity_vehicles_hour)
             G3 == IF both_directions
                   THEN add_edge(G2, v, u, edges[i].Distance_km,
                                 edges[i].Current_Capacity_vehicles_hour)
                   ELSE G2
         IN  AddRoads(G3, edges, i + 1, both_directions)

\* the loop over traffic_data: the volumes of an entry go to its edge, an
\* entry for an edge the graph does not have is left out
RECURSIVE AddTraffic(_, _, _)
AddTraffic(G, traffic_data, i) ==
    IF i > Len(traffic_data) THEN G
    ELSE LET u == traffic_data[i].RoadID_From
             v == traffic_data[i].RoadID_To
         IN  AddTraffic(IF has_edge(G, u, v)
                        THEN [G EXCEPT !.data[<<u, v>>].traffic = traffic_data[i].volumes]
                        ELSE G,
                        traffic_data, i + 1)

\* get_traffic_graph: None without traffic data (an empty list included)
get_traffic_graph(road_data, facilities_data, traffic_data) ==
    IF traffic_data = <<>> THEN NoGraph
    ELSE AddTraffic(AddRoads(AddFacilities(AddNodes(EmptyGraph, road_data.nodes, 1),
                                           facilities_data, 1, TRUE),
                             road_data.edges, 1, FALSE),
                    traffic_data, 1)

get_traffic_graph_for_yen(road_data, facilities_data, traffic_data) ==
    AddTraffic(AddRoads(AddFacilities(AddNodes(EmptyGraph, road_data.nodes, 1),
                                      facilities_data, 1, FALSE),
                        road_data.edges, 1, FALSE),
               traffic_data, 1)

get_emergency_graph(road_data, facilities_data, traffic_data) ==
    AddTraffic(AddRoads(AddFacilities(AddNodes(EmptyGraph, road_data.nodes, 1),
                                      facilities_data, 1, FALSE),
                        road_data.edges, 1, TRUE),
               traffic_data, 1)

\* the input files: node records, facility records, edge records, traffic entries
MaxRecords == 2

NodeRecords ==
    { [ID |-> 1, pos |-> <<0, 0>>], [ID |-> 2, pos |-> <<6, 8>>], [ID |-> 2, pos |-> NoCoord] }

FacilityLists ==
    { <<>>, << [ID |-> 4, pos |-> <<3, 4>>] >>, << [ID |-> 4, pos |-> NoCoord] >>,
      << [ID |-> 1, pos |-> <<6, 8>>] >> }

EdgeRecords ==
    { [FromID |-> u, ToID |-> v, Distance_km |-> d, Current_Capacity_vehicles_hour |-> 1000] :
        u \in Nodes, v \in Nodes, d \in RoadLengths } 

TrafficLists ==
    { <<>> } \cup { << [RoadID_From |-> e[1], RoadID_To |-> e[2], volumes |-> TrafficProfile] >> :
                      e \in { <<1, 2>>, <<2, 1>> } }

\* the lists of at most n records of S
RECURSIVE ListsUpTo(_, _)
ListsUpTo(S, n) ==
    IF n = 0 THEN { <<>> }
    ELSE ListsUpTo(S, n - 1)
         \cup { Append(l, x) : l \in { m \in ListsUpTo(S, n - 1) : Len(m) = n - 1 }, x \in S }

Loaders == { "get_traffic_graph", "get_traffic_graph_for_yen", "get_emergency_graph" }

InitLoad ==
    /\ graph = NoGraph
    /\ call = Idle
    /\ ret = NoResult
    /\ first = NoCall
    /\ sim = NoSimulator

\* the application loads its network, until a loader returns a graph, and
\* keeps the graph
Load ==
    /\ call = Idle
    /\ graph = NoGraph
    /\ \E nodes \in ListsUpTo(NodeRecords, 2), edges \in ListsUpTo(EdgeRecords, MaxRecords),
          facilities_data \in FacilityLists, traffic_data \in TrafficLists,
          loader \in Loaders :
         LET road_data == [nodes |-> nodes, edges |-> edges]
         IN  /\ \A i, j \in 1..Len(nodes) : i # j => nodes[i].ID # nodes[j].ID
             /\ \A i \in 1..Len(edges) : edges[i].FromID # edges[i].ToID
             /\ call' = [op |-> loader, road_data |-> road_data,
                         facilities_data |-> facilities_data,
                         traffic_data |-> traffic_data]
             /\ graph' = CASE loader = "get_traffic_graph" ->
                                get_traffic_graph(road_data, facilities_data, traffic_data)
                           [] loader = "get_traffic_graph_for_yen" ->
                                get_traffic_graph_for_yen(road_data, facilities_data,
                                                          traffic_data)
                           [] loader = "get_emergency_graph" ->
                                get_emergency_graph(road_data, facilities_data, traffic_data)
    /\ ret' = [loaded |-> graph' # NoGraph]
    /\ UNCHANGED <<first, sim>>

NextLoad == Load \/ Return

SpecLoad == InitLoad /\ [][NextLoad]_vars

\* --------------------------------------------------- kruskal_mst_modified
\* The infrastructure graph is an nx.Graph: roads is the set of its edges,
\* each written <<u, v>> as graph.edges yields it; data[e].type is
\* "existing_road" (with distance_km), "potential_road" (with distance_km and
\* cost_million_egp) or "unknown" (a road record of neither status, which
\* carries no weight).  Weights are whole numbers of 1/10,000,000.

\* lines 106-119: an edge without the weight asked for is skipped
has_weight(data, weight_key) ==
    IF weight_key = "cost_million_egp"
    THEN data.type = "existing_road" \/ "cost_million_egp" \in DOMAIN data
    ELSE weight_key \in DOMAIN data

\* lines 105-137: the weight an edge is pushed with
modified_weight(G, e, weight_key, critical_facility_ids, high_population_threshold) ==
    LET data == G.data[e]
        \* in 1/1000
        original_weight ==
            IF weight_key = "cost_million_egp"
            THEN IF data.type = "existing_road" THEN data.distance_km * 100
                 ELSE data.cost_million_egp * 1000
            ELSE data.distance_km * 1000
        penalised ==
            IF data.type = "potential_road" /\ weight_key = "distance_km"
            THEN (original_weight * (100 + data.cost_million_egp)) \div 100
            ELSE original_weight
        \* in 1/10
        critical == IF e[1] \in critical_facility_ids \/ e[2] \in critical_facility_ids
                    THEN 8 ELSE 10
        max_pop == IF G.Population[e[1]] >= G.Population[e[2]]
                   THEN G.Population[e[1]] ELSE G.Population[e[2]]
        \* min(1.5, max_pop / high_population_threshold) in 1/10
        pop_factor == Min(15, (max_pop * 10) \div high_population_threshold)
        \* 1 - population_weight_factor * (pop_factor - 1), in 1/1000, for
        \* population_weight_factor = 0.1
        populous == IF max_pop > high_population_threshold /\ high_population_threshold > 0
                    THEN 1000 - 10 * (pop_factor - 10)
                    ELSE 1000
    IN  penalised * critical * populous

\* lines 94-138: the heap of the edges taken into account
KruskalHeap(G, weight_key, consider_potential_roads, critical_facility_ids, high_population_threshold) ==
    { <<modified_weight(G, e, weight_key, critical_facility_ids, high_population_threshold),
        e[1], e[2]>> :
        e \in { f \in G.roads :
                  /\ consider_potential_roads \/ G.data[f].type # "potential_road"
                  /\ has_weight(G.data[f], weight_key) } }

\* heapq.heappop: the least (modified_weight, u, v) tuple
KruskalPop(edges) ==
    CHOOSE e \in edges :
        \A f \in edges :
            \/ e[1] < f[1]
            \/ e[1] = f[1] /\ e[2] < f[2]
            \/ e[1] = f[1] /\ e[2] = f[2] /\ e[3] <= f[3]

\* find_set: the root of node's set (the path compression of line 148 changes
\* no root)
RECURSIVE find_set(_, _)
find_set(parent, node) ==
    IF parent[node] # node THEN find_set(parent, parent[node]) ELSE node

\* unite_sets with a slip: the two sets are left apart.
unite_sets_apart(parent, u_set, v_set) == parent

unite_sets(parent, u_set, v_set) == [parent EXCEPT ![u_set] = v_set]

\* lines 159-167
RECURSIVE KruskalLoop(_, _, _, _, _)
KruskalLoop(edges, parent, mst, num_edges_in_mst, target_num_edges) ==
    IF edges = {} \/ num_edges_in_mst >= target_num_edges THEN mst
    ELSE LET top == KruskalPop(edges)
             u_set == find_set(parent, top[2])
             v_set == find_set(parent, top[3])
         IN  IF u_set # v_set
             THEN KruskalLoop(edges \ {top}, unite_sets(parent, u_set, v_set),
                              [mst EXCEPT !.roads = @ \cup {<<top[2], top[3]>>}],
                              num_edges_in_mst + 1, target_num_edges)
             ELSE KruskalLoop(edges \ {top}, parent, mst, num_edges_in_mst,
                              target_num_edges)

kruskal_mst_modified(G, weight_key, consider_potential_roads, critical_facility_ids, high_population_threshold) ==
    KruskalLoop(KruskalHeap(G, weight_key, consider_potential_roads, critical_facility_ids,
                            high_population_threshold),
                [node \in G.nodes |-> node],
                [nodes |-> G.nodes, roads |-> {}],
                0, Cardinality(G.nodes) - 1)

\* the infrastructure graphs: at most MaxEdges roads on four nodes, node 4 a
\* facility, node 1 populous or not
InfraNodes == 1..4

RoadData ==
    { [type |-> "existing_road", distance_km |-> d] : d \in RoadLengths }
    \cup { [type |-> "potential_road", distance_km |-> d, cost_million_egp |-> 50] :
             d \in RoadLengths }
    \cup { [type |-> "unknown"] }

Populations == {0, 120000, 200000}

InitKruskal ==
    /\ \E roads \in SUBSET { <<u, v>> \in InfraNodes \X InfraNodes : u < v } :
         /\ Cardinality(roads) <= MaxEdges
         /\ \E data \in [roads -> RoadData], population \in Populations :
              graph = [nodes |-> InfraNodes, roads |-> roads, data |-> data,
                       Population |-> [n \in InfraNodes |-> IF n = 1 THEN population ELSE 0]]
    /\ call = Idle
    /\ ret = NoResult
    /\ first = NoCall
    /\ sim = NoSimulator

CallKruskal ==
    /\ call = Idle
    /\ \E weight_key \in {"distance_km", "cost_million_egp"},
          consider_potential_roads \in BOOLEAN,
          critical_facility_ids \in {{}, FacilityIds} :
         /\ call' = [op |-> "kruskal", weight_key |-> weight_key,
                     consider_potential_roads |-> consider_potential_roads,
                     critical_facility_ids |-> critical_facility_ids]
         /\ ret' = kruskal_mst_modified(graph, weight_key, consider_potential_roads,
                                        critical_facility_ids, 100000)
    /\ UNCHANGED <<graph, first, sim>>

NextKruskal == CallKruskal \/ Return

SpecKruskal == InitKruskal /\ [][NextKruskal]_vars

\* ------------------------------------------------------ EmergencySimulator
\* A statement after an assignment: Python computes the assigned value once,
\* and Rest works on that value.
Then(value, Rest(_)) == CHOOSE result \in { Rest(v) : v \in {value} } : TRUE

\* simulation_steps of the simulators
MaxSteps == 4

\* None, for a node and for a path
NoNode == 0
NoPath == <<>>

TimeOfDayCycle == <<"morning_peak", "afternoon", "evening_peak", "night">>

\* run, lines 168-170: the time of day of step i
current_tod(i) == TimeOfDayCycle[(i % 4) + 1]

\* initialize_vehicles, lines 28-37; vehicle ids are 1, 2, .. for "EV0", "EV1", ..
NewVehicle(id, start_node) ==
    [id |-> id, current_node |-> start_node, status |-> "available",
     incident_target |-> NoNode, facility_target |-> NoNode,
     path |-> NoPath, path_index |-> 0, payload |-> FALSE]

\* generate_incident, lines 41-48: the nodes an incident can be drawn at
IncidentNodes(S, G) ==
    LET elsewhere == G.nodes \ Range(S.medical_facilities)
    IN  IF elsewhere # {} THEN elsewhere ELSE G.nodes

\* generate_incident: location is the node drawn, NoNode when none is generated
generate_incident(S, step, location) ==
    IF location # NoNode /\ Len(S.incidents) < S.num_incidents * 2
    THEN [S EXCEPT !.incidents =
             Append(@, [id |-> <<step, Len(S.incidents)>>, location |-> location,
                        time_reported |-> step, status |-> "pending_dispatch",
                        assigned_vehicle |-> NoNode])]
    ELSE S

\* lines 66-77 and 112-129: the first of the candidate searches with the least
\* length; found is FALSE while no search has returned a path
RECURSIVE ShortestSearch(_, _, _, _, _, _, _)
ShortestSearch(G, sources, targets, time_of_day, priority, j, best) ==
    IF j > Len(sources) THEN best
    ELSE Then(a_star_emergency_path(G, sources[j], targets[j], TRUE, time_of_day,
                                    priority),
              LAMBDA r :
                Then(IF r # NoneNone /\ (~best.found \/ r.length < best.length)
                     THEN [found |-> TRUE, index |-> j, path |-> r.path,
                           length |-> r.length]
                     ELSE best,
                     LAMBDA better :
                       ShortestSearch(G, sources, targets, time_of_day, priority, j + 1,
                                      better)))

NothingFound == [found |-> FALSE]

\* dispatch_vehicle(incident, current_time_of_day) for the k-th incident
dispatch_vehicle(S, G, k, current_time_of_day) ==
    LET available_vehicles ==
            SelectSeq([j \in 1..Len(S.emergency_vehicles) |-> j],
                      LAMBDA j : S.emergency_vehicles[j].status = "available")
        incident == S.incidents[k]
    IN  Then(ShortestSearch(G,
                 [j \in 1..Len(available_vehicles) |->
                     S.emergency_vehicles[available_vehicles[j]].current_node],
                 [j \in 1..Len(available_vehicles) |-> incident.location],
                 current_time_of_day, 8, 1, NothingFound),
             LAMBDA best :
               IF best.found
               THEN LET v == available_vehicles[best.index]
                    IN  [S EXCEPT
                           !.emergency_vehicles[v].status = "enroute_to_incident",
                           !.emergency_vehicles[v].incident_target = incident.location,
                           !.emergency_vehicles[v].path = best.path,
                           !.emergency_vehicles[v].path_index = 0,
                           !.incidents[k].status = "vehicle_assigned",
                           !.incidents[k].assigned_vehicle = S.emergency_vehicles[v].id]
               ELSE S)

\* lines 94-96
RECURSIVE DispatchPending(_, _, _, _)
DispatchPending(S, G, k, current_time_of_day) ==
    IF k > Len(S.incidents) THEN S
    ELSE Then(IF S.incidents[k].status = "pending_dispatch"
              THEN dispatch_vehicle(S, G, k, current_time_of_day)
              ELSE S,
              LAMBDA S1 : DispatchPending(S1, G, k + 1, current_time_of_day))

\* lines 137-141: the first incident assigned to the vehicle is resolved; 0
\* when there is none
AssignedIncident(S, vehicle_id) ==
    LET open == { k \in 1..Len(S.incidents) :
                    /\ S.incidents[k].assigned_vehicle = vehicle_id
                    /\ S.incidents[k].status = "vehicle_assigned" }
    IN  IF open = {} THEN 0 ELSE CHOOSE k \in open : \A m \in open : k <= m

\* Released with a slip: the payload stays on board.
ReleasedLoaded(S, j) == [S EXCEPT !.emergency_vehicles[j].status = "available"]

\* lines 118-119 and 144-145: the vehicle is available again, without payload
Released(S, j) ==
    [S EXCEPT !.emergency_vehicles[j].status = "available",
              !.emergency_vehicles[j].payload = FALSE]

\* lines 108-145: the vehicle is at the end of its path to the incident
ArriveAtIncident(S, G, j, step_num, current_time_of_day) ==
    LET vehicle == S.emergency_vehicles[j]
        S1 == [S EXCEPT !.emergency_vehicles[j].current_node = vehicle.incident_target,
                        !.emergency_vehicles[j].payload = TRUE]
        k == AssignedIncident(S, vehicle.id)
    IN  IF S.medical_facilities = <<>> THEN Released(S1, j)
        ELSE Then(ShortestSearch(G,
                      [f \in 1..Len(S.medical_facilities) |-> vehicle.incident_target],
                      S.medical_facilities, current_time_of_day, 7, 1, NothingFound),
                  LAMBDA best :
                    IF best.found
                    THEN LET S2 == [S1 EXCEPT
                                      !.emergency_vehicles[j].status =
                                          "enroute_to_facility",
                                      !.emergency_vehicles[j].facility_target =
                                          S.medical_facilities[best.index],
                                      !.emergency_vehicles[j].path = best.path,
                                      !.emergency_vehicles[j].path_index = 0]
                         IN  IF k = 0 THEN S2
                             ELSE [S2 EXCEPT
                                     !.incidents[k].status = "resolved",
                                     !.log = Append(@, [event |-> "picked_up",
                                                        incident |-> S.incidents[k].id,
                                                        vehicle |-> vehicle.id,
                                                        step |-> step_num])]
                    ELSE Released(S1, j))

\* lines 147-156: the vehicle is at the end of its path to the facility; the
\* status "at_facility" of line 149 is replaced at line 154
ArriveAtFacility(S, j, step_num) ==
    [S EXCEPT !.emergency_vehicles[j].current_node = S.emergency_vehicles[j].facility_target,
              !.emergency_vehicles[j].status = "available",
              !.emergency_vehicles[j].payload = FALSE,
              !.emergency_vehicles[j].path = NoPath,
              !.emergency_vehicles[j].path_index = 0,
              !.log = Append(@, [event |-> "arrived_at_facility",
                                 vehicle |-> S.emergency_vehicles[j].id,
                                 step |-> step_num])]

\* lines 99-156, for the j-th vehicle and the ones after it
RECURSIVE MoveVehicles(_, _, _, _, _)
MoveVehicles(S, G, j, step_num, current_time_of_day) ==
    IF j > Len(S.emergency_vehicles) THEN S
    ELSE LET vehicle == S.emergency_vehicles[j]
         IN  Then(IF vehicle.status = "available" \/ vehicle.path = NoPath THEN S
                  ELSE IF vehicle.path_index < Len(vehicle.path) - 1
                  THEN [S EXCEPT !.emergency_vehicles[j].current_node =
                                     vehicle.path[vehicle.path_index + 2],
                                 !.emergency_vehicles[j].path_index = @ + 1]
                  ELSE IF vehicle.status = "enroute_to_incident"
                  THEN ArriveAtIncident(S, G, j, step_num, current_time_of_day)
                  ELSE IF vehicle.status = "enroute_to_facility"
                  THEN ArriveAtFacility(S, j, step_num)
                  ELSE S,
                  LAMBDA moved :
                    MoveVehicles(moved, G, j + 1, step_num, current_time_of_day))

\* lines 159-165: a vehicle without its path, the incidents not resolved
Snapshot(S, step_num, current_time_of_day) ==
    [step |-> step_num, time_of_day |-> current_time_of_day,
     vehicles |-> [j \in 1..Len(S.emergency_vehicles) |->
                      LET veh == S.emergency_vehicles[j]
                      IN  [id |-> veh.id, current_node |-> veh.current_node,
                           status |-> veh.status, incident_target |-> veh.incident_target,
                           facility_target |-> veh.facility_target,
                           path_index |-> veh.path_index, payload |-> veh.payload]],
     incidents |-> SelectSeq(S.incidents, LAMBDA inc : inc.status # "resolved")]

\* step_simulation(step_num, current_time_of_day); location is the draw of
\* generate_incident
step_simulation(S, G, step_num, current_time_of_day, location) ==
    Then(generate_incident(S, step_num, location), LAMBDA S1 :
    Then(DispatchPending(S1, G, 1, current_time_of_day), LAMBDA S2 :
    Then(MoveVehicles(S2, G, 1, step_num, current_time_of_day), LAMBDA S3 :
         [S3 EXCEPT !.history = Append(@, Snapshot(S3, step_num, current_time_of_day))])))

\* the road networks of the simulation: three nodes on a line, each road in
\* both directions, the third node cut off or not
SimulationRoads ==
    { <<<<2>>, <<1, 3>>, <<2>>>>, <<<<2>>, <<1>>, <<>>>> }

MedicalFacilities == { <<>>, <<1>>, <<3>>, <<1, 3>> }

\* EmergencySimulator(graph, num_incidents, simulation_steps)
InitSimulation ==
    /\ \E adj \in SimulationRoads, far \in RoadLengths :
         graph = MakeGraph(adj, [e \in AdjEdges(adj) |-> IF 3 \in {e[1], e[2]} THEN far ELSE 5],
                           NoCoordinates(adj))
    /\ \E medical_facilities \in MedicalFacilities, num_incidents \in {1, 2} :
         LET start_nodes == IF medical_facilities # <<>> THEN Range(medical_facilities)
                            ELSE graph.nodes
         IN  \E start \in [1..num_incidents -> start_nodes] :
               sim = [num_incidents |-> num_incidents, simulation_steps |-> MaxSteps,
                      incidents |-> <<>>,
                      emergency_vehicles |-> [i \in 1..num_incidents |->
                                                 NewVehicle(i, start[i])],
                      history |-> <<>>, medical_facilities |-> medical_facilities,
                      log |-> <<>>, i |-> 0, running |-> TRUE]
    /\ call = Idle
    /\ ret = NoResult
    /\ first = NoCall

\* run, lines 169-177: one round of the loop; the loop ends after
\* simulation_steps rounds, or earlier by a draw when nothing is open
Step ==
    /\ sim # NoSimulator
    /\ sim.running
    /\ sim.i < sim.simulation_steps
    /\ \E location \in {NoNode} \cup IncidentNodes(sim, graph), stop \in BOOLEAN :
         \E S \in {step_simulation(sim, graph, sim.i, current_tod(sim.i), location)} :
            LET quiet == /\ \A k \in 1..Len(S.incidents) :
                              S.incidents[k].status = "resolved"
                         /\ sim.i > sim.num_incidents * 2
            IN  /\ stop => quiet
                /\ sim' = [S EXCEPT !.i = sim.i + 1,
                                    !.running = ~stop /\ sim.i + 1 < sim.simulation_steps]
    /\ UNCHANGED <<graph, call, ret, first>>

\* ------------------------------------------ analyze_emergency_response_times
\* An entry of incident_timings; a key not set yet is Unset (None for the
\* vehicle).  The dict keeps its keys in the order they were added.
Unset == 0 - 1

NewTiming(incident_sim, step) ==
    [id |-> incident_sim.id, reported_step |-> step, location |-> incident_sim.location,
     assigned_step |-> Unset, assigned_vehicle |-> NoNode,
     vehicle_arrived_incident_step |-> Unset, vehicle_arrived_facility_step |-> Unset]

TimingOf(T, inc_id) ==
    CHOOSE m \in 1..Len(T.incident_timings) : T.incident_timings[m].id = inc_id

\* lines 46-55
RECURSIVE TrackIncidents(_, _, _, _)
TrackIncidents(T, incidents, i, step) ==
    IF i > Len(incidents) THEN T
    ELSE LET incident_sim == incidents[i]
         IN  Then(IF \E m \in 1..Len(T.incident_timings) :
                         T.incident_timings[m].id = incident_sim.id
                  THEN T
                  ELSE [T EXCEPT !.incident_timings =
                                     Append(@, NewTiming(incident_sim, step))],
                  LAMBDA T1 :
                    LET m == TimingOf(T1, incident_sim.id)
                    IN  Then(IF incident_sim.status = "vehicle_assigned"
                                /\ T1.incident_timings[m].assigned_step = Unset
                             THEN [T1 EXCEPT
                                     !.incident_timings[m].assigned_step = step,
                                     !.incident_timings[m].assigned_vehicle =
                                         incident_sim.assigned_vehicle,
                                     !.dispatch_times =
                                         Append(@, step -
                                                   T1.incident_timings[m].reported_step)]
                             ELSE T1,
                             LAMBDA T2 : TrackIncidents(T2, incidents, i + 1, step)))

\* lines 61-84, from the m-th entry of incident_timings on
RECURSIVE TrackVehicle(_, _, _, _)
TrackVehicle(T, vehicle_sim, m, step) ==
    IF m > Len(T.incident_timings) THEN T
    ELSE LET inc_data == T.incident_timings[m]
         IN  IF inc_data.assigned_vehicle # vehicle_sim.id
             THEN TrackVehicle(T, vehicle_sim, m + 1, step)
             ELSE Then(IF /\ vehicle_sim.current_node = inc_data.location
                          /\ vehicle_sim.status = "enroute_to_facility"
                          /\ inc_data.vehicle_arrived_incident_step = Unset
                       THEN [T EXCEPT
                               !.incident_timings[m].vehicle_arrived_incident_step = step,
                               !.arrival_at_incident_times =
                                   IF inc_data.assigned_step # Unset
                                   THEN Append(@, step - inc_data.assigned_step) ELSE @]
                       ELSE T,
                       LAMBDA T1 :
                         LET picked_up ==
                                 T1.incident_timings[m].vehicle_arrived_incident_step
                         IN  IF /\ vehicle_sim.status = "at_facility"
                                /\ vehicle_sim.current_node = vehicle_sim.facility_target
                                /\ inc_data.vehicle_arrived_facility_step = Unset
                                /\ picked_up # Unset
                             THEN [T1 EXCEPT
                                     !.incident_timings[m].vehicle_arrived_facility_step =
                                         step,
                                     !.arrival_at_facility_times =
                                         Append(@, step - picked_up),
                                     !.total_resolution_times =
                                         Append(@, step - inc_data.reported_step)]
                             ELSE TrackVehicle(T1, vehicle_sim, m + 1, step))

\* lines 58-59
RECURSIVE TrackVehicles(_, _, _, _)
TrackVehicles(T, vehicles, j, step) ==
    IF j > Len(vehicles) THEN T
    ELSE Then(TrackVehicle(T, vehicles[j], 1, step),
              LAMBDA T1 : TrackVehicles(T1, vehicles, j + 1, step))

\* lines 42-84
RECURSIVE TrackSteps(_, _, _)
TrackSteps(T, simulation_history, h) ==
    IF h > Len(simulation_history) THEN T
    ELSE LET step_data == simulation_history[h]
         IN  Then(TrackIncidents(T, step_data.incidents, 1, step_data.step),
                  LAMBDA T1 :
                    Then(TrackVehicles(T1, step_data.vehicles, 1, step_data.step),
                         LAMBDA T2 : TrackSteps(T2, simulation_history, h + 1)))

\* the times and their count; the means and medians of lines 95-102 are
\* computed from these lists
analyze_emergency_response_times(simulation_history) ==
    IF simulation_history = <<>> THEN [error |-> "Simulation history is empty."]
    ELSE Then(TrackSteps([incident_timings |-> <<>>, dispatch_times |-> <<>>,
                          arrival_at_incident_times |-> <<>>,
                          arrival_at_facility_times |-> <<>>,
                          total_resolution_times |-> <<>>],
                         simulation_history, 1),
              LAMBDA T :
                [num_incidents_processed_for_timing |-> Len(T.total_resolution_times),
                 dispatch_times_steps |-> T.dispatch_times,
                 arrival_at_incident_times_steps |-> T.arrival_at_incident_times,
                 arrival_at_facility_times_steps |-> T.arrival_at_facility_times,
                 total_resolution_times_steps |-> T.total_resolution_times,
                 incident_details_timed |-> T.incident_timings])

\* the history run has returned is analysed
Analyze ==
    /\ call = Idle
    /\ sim # NoSimulator
    /\ ~sim.running
    /\ call' = [op |-> "analyze"]
    /\ ret' = analyze_emergency_response_times(sim.history)
    /\ UNCHANGED <<graph, first, sim>>

NextSimulation == Step \/ Analyze \/ Return

SpecSimulation == InitSimulation /\ [][NextSimulation]_vars

\* a round of the loop of run is possible; every round advances sim.i, so
\* this is ENABLED <<Step>>_vars
StepEnabled == sim # NoSimulator /\ sim.running /\ sim.i < sim.simulation_steps

\* run calls step_simulation again and again until its loop ends: weak
\* fairness of Step, with its enabling condition written out
StepFairness == []<>(~StepEnabled) \/ []<><<Step>>_vars

\* the loop goes on and a call returns
SpecSimulationFair == SpecSimulation /\ StepFairness /\ WF_vars(Return)

\* --------------------------------------------------------- TrafficSimulator
\* num_vehicles of the traffic simulators
MaxVehicles == 3

\* initialize_vehicles, lines 71-78
NewAgent(id, start_node, destination_node) ==
    [id |-> id, current_node |-> start_node, destination_node |-> destination_node,
     path |-> NoPath, path_index |-> 0, status |-> "idle"]

\* _get_path, lines 80-86: NoPath for None; every edge carries Distance_km
_get_path(G, source, target) == nx_dijkstra_path(G, source, target, nx_weight(G))

\* lines 122-123: the value under the key of the time of day, else max_capacity
edge_capacity(edge_data, current_time_of_day) ==
    IF edge_data.traffic # NoTraffic
    THEN CASE current_time_of_day = "morning_peak" -> edge_data.traffic.morning_peak_veh_h
           [] current_time_of_day = "afternoon" -> edge_data.traffic.afternoon_veh_h
           [] current_time_of_day = "evening_peak" -> edge_data.traffic.evening_peak_veh_h
           [] current_time_of_day = "night" -> edge_data.traffic.night_veh_h
    ELSE edge_data.base_capacity_veh_hr

\* HasRoom with a slip: an edge that has reached its share still takes one.
HasRoomInclusive(current_on_edge, capacity) == current_on_edge * 10 <= capacity

\* line 128: current_on_edge < edge_capacity * 0.1; for integers the product
\* in floating point compares as the exact tenth does
HasRoom(current_on_edge, capacity) == current_on_edge * 10 < capacity

\* lines 99-134 for the j-th vehicle
StepVehicle(S, G, j, current_time_of_day) ==
    LET vehicle == S.vehicles[j]
        search == vehicle.status = "idle" \/ vehicle.path = NoPath
        path == IF search
                THEN _get_path(G, vehicle.current_node, vehicle.destination_node)
                ELSE vehicle.path
        routed == IF search
                  THEN [vehicle EXCEPT !.path = path, !.path_index = 0,
                                       !.status = IF path # NoPath THEN "moving"
                                                  ELSE "stuck"]
                  ELSE vehicle
    IN  IF vehicle.status = "arrived" THEN S
        ELSE IF routed.status # "moving" THEN [S EXCEPT !.vehicles[j] = routed]
        ELSE IF routed.path_index < Len(routed.path) - 1
        THEN LET current_loc == routed.path[routed.path_index + 1]
                 next_loc == routed.path[routed.path_index + 2]
                 e == <<current_loc, next_loc>>
                 current_on_edge == S.on_edge[e]
             IN  IF HasRoom(current_on_edge, edge_capacity(G.data[e], current_time_of_day))
                 THEN [S EXCEPT !.vehicles[j] =
                                    [routed EXCEPT !.current_node = next_loc,
                                                   !.path_index = @ + 1],
                                !.on_edge[e] = current_on_edge + 1]
                 ELSE [S EXCEPT !.vehicles[j] = routed]
        ELSE [S EXCEPT !.vehicles[j] = [routed EXCEPT !.status = "arrived"]]

\* the loop of line 98, from the j-th vehicle on
RECURSIVE StepVehicles(_, _, _, _)
StepVehicles(S, G, j, current_time_of_day) ==
    IF j > Len(S.vehicles) THEN S
    ELSE Then(StepVehicle(S, G, j, current_time_of_day),
              LAMBDA S1 : StepVehicles(S1, G, j + 1, current_time_of_day))

\* step(current_time_of_day), lines 93-138: on_edge[e] is the
\* current_vehicles_on_edge of edge e
step(S, G, current_time_of_day) ==
    LET reset == [S EXCEPT !.on_edge = [e \in DOMAIN G.data |-> 0]]
    IN  Then(StepVehicles(reset, G, 1, current_time_of_day),
             LAMBDA moved : [moved EXCEPT !.history = Append(@, moved.on_edge)])

\* run_simulation, lines 141 and 143: the time of day of step i
traffic_tod(simulation_steps, i) ==
    LET cycle_len == 4 * ((simulation_steps \div 4) + 1)
    IN  TimeOfDayCycle[((i % cycle_len) % 4) + 1]

\* the road networks of the traffic simulation: a two-way line and a one-way
\* line, whose last node has no way out
TrafficRoads == { <<<<2>>, <<1, 3>>, <<2>>>>, <<<<2>>, <<3>>, <<>>>> }

\* max_capacity values: none, less than ten, ten, between ten and twenty, ample
StepCapacities == {0, 5, 10, 15, 1000}

\* the start node and the destination of a vehicle, lines 66-70
Trips(G) == { t \in G.nodes \X G.nodes : t[1] # t[2] }

\* the simulator's copy of the graph of get_base_traffic_graph: max_capacity
\* is the base_capacity_veh_hr of the edge record, a traffic record gives the
\* edge the four <time of day>_veh_h keys
InitTraffic ==
    /\ \E adj \in TrafficRoads, capacity \in StepCapacities,
          profile \in {NoTraffic, TrafficProfile} :
         LET G == MakeGraph(adj, [e \in AdjEdges(adj) |-> 5], NoCoordinates(adj))
         IN  graph = [G EXCEPT !.data = [e \in DOMAIN G.data |->
                          [G.data[e] EXCEPT !.base_capacity_veh_hr = capacity,
                                            !.traffic = IF e = <<1, 2>> THEN profile
                                                        ELSE NoTraffic]]]
    /\ \E num_vehicles \in 2..MaxVehicles :
         \E trip \in [1..num_vehicles -> Trips(graph)] :
            sim = [num_vehicles |-> num_vehicles, simulation_steps |-> MaxSteps,
                   vehicles |-> [i \in 1..num_vehicles |->
                                    NewAgent(i - 1, trip[i][1], trip[i][2])],
                   on_edge |-> [e \in DOMAIN graph.data |-> 0],
                   history |-> <<>>, i |-> 0, running |-> TRUE]
    /\ call = Idle
    /\ ret = NoResult
    /\ first = NoCall

\* run_simulation, lines 142-148: one round of the loop, which ends after
\* simulation_steps rounds or when every vehicle has arrived or is stuck
RunSimulation ==
    /\ sim # NoSimulator
    /\ sim.running
    /\ sim.i < sim.simulation_steps
    /\ \E S \in {step(sim, graph, traffic_tod(sim.simulation_steps, sim.i))} :
         LET done == \A j \in 1..Len(S.vehicles) :
                        S.vehicles[j].status \in {"arrived", "stuck"}
         IN  sim' = [S EXCEPT !.i = sim.i + 1,
                              !.running = ~done /\ sim.i + 1 < sim.simulation_steps]
    /\ UNCHANGED <<graph, call, ret, first>>

NextTraffic == RunSimulation

SpecTraffic == InitTraffic /\ [][NextTraffic]_vars

\* ============================================================== the claims
\* the loopless paths of G from s to t
SimplePaths(G, s, t) ==
    { p \in Arrangements(G.nodes) :
        /\ p # <<>> /\ p[1] = s /\ p[Len(p)] = t
        /\ \A i \in 1..(Len(p) - 1) : has_edge(G, p[i], p[i + 1]) }

Reachable(G, s, t) == s \in G.nodes /\ t \in G.nodes /\ SimplePaths(G, s, t) # {}

RECURSIVE SumOver(_, _)
SumOver(f, S) ==
    IF S = {} THEN 0 ELSE LET x == CHOOSE y \in S : TRUE IN f[x] + SumOver(f, S \ {x})

\* the congestion-adjusted weight of an edge as the routing contract states
\* it: base * min(1 + volume / capacity, 5.0), a capacity of 0 read as 1, in
\* 1/Unit km; the base weight when the query has no (known) time of day or
\* the edge no volume for it
ContractWeight(data, time_dependent, time_of_day) ==
    IF time_dependent /\ time_of_day \in TimesOfDay /\ data.traffic # NoTraffic
    THEN LET volume == IF time_of_day = "morning_peak" THEN data.traffic.morning_peak_veh_h
                       ELSE IF time_of_day = "afternoon" THEN data.traffic.afternoon_veh_h
                       ELSE IF time_of_day = "evening_peak" THEN data.traffic.evening_peak_veh_h
                       ELSE data.traffic.night_veh_h
             cap == IF data.base_capacity_veh_hr = 0 THEN 1 ELSE data.base_capacity_veh_hr
         IN  IF volume >= 4 * cap THEN 5 * Unit * data.distance_km
             ELSE (data.distance_km * Unit * (cap + volume)) \div cap
    ELSE data.distance_km * Unit

ContractCost(G, p, time_dependent, time_of_day) ==
    SumOver([i \in 1..(Len(p) - 1) |->
                ContractWeight(G.data[<<p[i], p[i + 1]>>], time_dependent, time_of_day)],
            1..(Len(p) - 1))

IsDijkstraCall == call # Idle /\ call.op = "dijkstra"

\* C1: for a reachable (source, target) pair dijkstra_time_dependent returns a
\* path from source to target along edges of the graph in which no node occurs
\* twice, and a cost that is the sum of the effective weights of its edges.
C1_PathAndCost ==
    (IsDijkstraCall /\ Reachable(graph, call.source, call.target)) =>
        /\ ret # NoneNone
        /\ ret.path[1] = call.source
        /\ ret.path[Len(ret.path)] = call.target
        /\ NoRepeat(ret.path)
        /\ \A i \in 1..(Len(ret.path) - 1) : has_edge(graph, ret.path[i], ret.path[i + 1])
        /\ ret.length = ContractCost(graph, ret.path, call.time_dependent, call.time_of_day)

\* a time-dependent query answered with a two-edge path over a congested edge
C1_Witness ==
    /\ IsDijkstraCall /\ ret # NoneNone
    /\ call.time_dependent /\ call.time_of_day = "afternoon"
    /\ Len(ret.path) = 3
    /\ graph.data[<<ret.path[1], ret.path[2]>>].traffic # NoTraffic
    /\ ret.length > Unit * get_path_length(ret.path, graph, 1)

\* the network A, B, C of the scenarios: A->B 5 km, B->C 5 km, A->C 12 km
ScenarioABC ==
    /\ Edges(graph) = {<<1, 2>>, <<2, 3>>, <<1, 3>>}
    /\ graph.data[<<1, 2>>].distance_km = 5
    /\ graph.data[<<2, 3>>].distance_km = 5
    /\ graph.data[<<1, 3>>].distance_km = 12

TimeIndependent == ~call.time_dependent \/ call.time_of_day = NoneTime

\* C2: without time dependency the returned path has the least total base
\* weight of all source-to-target paths; on the network A, B, C the query
\* (A, C) returns [A, B, C] with cost 10.
C2_MinimumBaseWeight ==
    (IsDijkstraCall /\ TimeIndependent /\ ret # NoneNone) =>
        /\ \A p \in SimplePaths(graph, call.source, call.target) :
              ret.length <= Unit * get_path_length(p, graph, 1)
        /\ ret.length = Unit * get_path_length(ret.path, graph, 1)
        /\ (ScenarioABC /\ call.source = 1 /\ call.target = 3) =>
              ret = [path |-> <<1, 2, 3>>, length |-> 10 * Unit]

C2_Witness ==
    /\ IsDijkstraCall /\ TimeIndependent /\ ScenarioABC
    /\ call.source = 1 /\ call.target = 3
    /\ ret = [path |-> <<1, 2, 3>>, length |-> 10 * Unit]

\* the morning peak of the scenario: 4000 vehicles on A->B, capacity 1000
ScenarioPeak ==
    /\ ScenarioABC
    /\ graph.data[<<1, 2>>].traffic # NoTraffic
    /\ graph.data[<<1, 2>>].traffic.morning_peak_veh_h = 4000
    /\ graph.data[<<1, 2>>].base_capacity_veh_hr = 1000

\* C3: with a time of day the returned path has the least congestion-adjusted
\* cost, base * min(1 + volume/capacity, 5.0) per edge; on the network A, B, C
\* with the morning peak on A->B the query returns [A, C] with cost 12, A->B
\* costing 25.
C3_MinimumCongestedCost ==
    (IsDijkstraCall /\ call.time_dependent /\ call.time_of_day \in TimesOfDay
     /\ ret # NoneNone) =>
        /\ \A p \in SimplePaths(graph, call.source, call.target) :
              ret.length <= ContractCost(graph, p, TRUE, call.time_of_day)
        /\ ret.length = ContractCost(graph, ret.path, TRUE, call.time_of_day)
        /\ (ScenarioPeak /\ call.time_of_day = "morning_peak"
            /\ call.source = 1 /\ call.target = 3) =>
              /\ ret = [path |-> <<1, 3>>, length |-> 12 * Unit]
              /\ get_edge_weight(graph.data[<<1, 2>>], TRUE, "morning_peak") = 25 * Unit

C3_Witness ==
    /\ IsDijkstraCall /\ ScenarioPeak
    /\ call.time_dependent /\ call.time_of_day = "morning_peak"
    /\ call.source = 1 /\ call.target = 3
    /\ ret = [path |-> <<1, 3>>, length |-> 12 * Unit]

\* C4: the value returned when source or target is not in the graph differs
\* from the value returned when both are in the graph and no path joins them.
C4_FailuresDistinguished ==
    (IsDijkstraCall /\ (~has_node(graph, call.source) \/ ~has_node(graph, call.target))) =>
        \A s \in graph.nodes, t \in graph.nodes :
            ~Reachable(graph, s, t) =>
                ret # dijkstra_time_dependent(graph, s, t, call.time_dependent,
                                              call.time_of_day)

IsYenCall == call # Idle /\ call.op = "yen"

\* the total base weight of a path, in km
BaseCost(p) == SumOver([i \in 1..(Len(p) - 1) |->
                           graph.data[<<p[i], p[i + 1]>>].distance_km],
                       1..(Len(p) - 1))

\* C5: no node occurs twice in any path returned by yen_k_shortest_paths.
C5_Loopless ==
    IsYenCall => \A j \in 1..Len(ret) : NoRepeat(ret[j])

NonDecreasingCost == \A j \in 1..(Len(ret) - 1) : BaseCost(ret[j]) <= BaseCost(ret[j + 1])

DijkstraStatic ==
    dijkstra_time_dependent(graph, call.source, call.target, FALSE, NoneTime)

\* C7: for a reachable (source, target) pair and K >= 1 the first path
\* returned by yen_k_shortest_paths is the path dijkstra_time_dependent
\* returns for the same pair without time dependency.
C7_FirstIsDijkstra ==
    (IsYenCall /\ call.K >= 1 /\ Reachable(graph, call.source, call.target)) =>
        /\ ret # <<>>
        /\ DijkstraStatic # NoneNone
        /\ ret[1] = DijkstraStatic.path

\* the second path returned costs as much as the first
C7_Witness ==
    /\ IsYenCall /\ call.K >= 2 /\ Len(ret) >= 2
    /\ DijkstraStatic # NoneNone
    /\ ret[1] = DijkstraStatic.path
    /\ Len(ret[1]) = 3
    /\ BaseCost(ret[2]) = BaseCost(ret[1])

\* C8: no two paths returned by one call of yen_k_shortest_paths have the same
\* node sequence.
C8_NoDuplicates ==
    IsYenCall => \A i, j \in 1..Len(ret) : i # j => ret[i] # ret[j]

\* the path [1, 3, 4] is pushed by the spur searches of two iterations (from
\* [1, 2, 4] and from [1, 2, 3, 4]) and popped twice, yet returned once
C8_Witness ==
    /\ IsYenCall /\ call.K = 4 /\ call.source = 1 /\ call.target = 4
    /\ ret = << <<1, 2, 4>>, <<1, 2, 3, 4>>, <<1, 3, 4>> >>
    /\ BaseCost(ret[2]) < BaseCost(ret[3])

\* C9: when there are exactly m loopless paths from source to target and
\* K > m, yen_k_shortest_paths returns exactly m paths.
C9_ExactlyAllSimplePaths ==
    (IsYenCall /\ Reachable(graph, call.source, call.target)
     /\ call.K > Cardinality(SimplePaths(graph, call.source, call.target))) =>
        Len(ret) = Cardinality(SimplePaths(graph, call.source, call.target))

IsAStarCall == call # Idle /\ call.op = "astar"

AllCoordinates == \A n \in graph.nodes : graph.pos[n] # NoCoord

\* the straight-line distance to the target never falls by more than the
\* weight of the edge taken (both in 1/Unit km)
ConsistentHeuristic ==
    \A e \in Edges(graph) :
        heuristic_distance(graph, e[1], call.target) * Unit
            <= graph.data[e].distance_km * Unit
               + heuristic_distance(graph, e[2], call.target) * Unit

\* the source-to-target paths of least total base weight
CheapestPaths ==
    LET all == SimplePaths(graph, call.source, call.target)
    IN  { p \in all : \A q \in all : BaseCost(p) <= BaseCost(q) }

IsWeighing == call # Idle /\ call.op = "weight"

TheEdge == graph.data[<<1, 2>>]

\* the volume of the weighed edge in a bucket
VolumeAt(time_of_day) ==
    CASE time_of_day = "morning_peak" -> TheEdge.traffic.morning_peak_veh_h
      [] time_of_day = "afternoon" -> TheEdge.traffic.afternoon_veh_h
      [] time_of_day = "evening_peak" -> TheEdge.traffic.evening_peak_veh_h
      [] time_of_day = "night" -> TheEdge.traffic.night_veh_h

Congested == call.time_dependent /\ call.time_of_day \in TimesOfDay

\* C11: the congestion factor of an edge (its weight over its base weight)
\* does not fall when the volume rises and never exceeds 5.0 in
\* dijkstra_time_dependent and 3.0 in a_star_emergency_path; for capacity 1000
\* and volume 10000 the ordinary factor is 5.0.
C11_FactorMonotoneAndCapped ==
    (IsWeighing /\ Congested) =>
        /\ ret.ordinary <= 5 * Unit * TheEdge.distance_km
        /\ 10 * ret.emergency <= 3 * Unit * TheEdge.distance_km * call.priority
        /\ \A t \in TimesOfDay :
              VolumeAt(t) <= VolumeAt(call.time_of_day) =>
                 /\ get_edge_weight(TheEdge, TRUE, t) <= ret.ordinary
                 /\ get_dynamic_edge_weight(TheEdge, TRUE, t, call.priority)
                        <= ret.emergency
        /\ (TheEdge.base_capacity_veh_hr = 1000 /\ VolumeAt(call.time_of_day) = 10000) =>
              ret.ordinary = 5 * Unit * TheEdge.distance_km

\* capacity 1000, volume 10000 in the morning and less in the evening
C11_Witness ==
    /\ IsWeighing /\ Congested /\ call.time_of_day = "morning_peak"
    /\ TheEdge.base_capacity_veh_hr = 1000 /\ TheEdge.distance_km = 5
    /\ VolumeAt("morning_peak") = 10000 /\ VolumeAt("evening_peak") = 3000
    /\ ret.ordinary = 25 * Unit
    /\ get_edge_weight(TheEdge, TRUE, "evening_peak") = 20 * Unit
    /\ call.priority = 10 /\ ret.emergency = 15 * Unit

\* C12: in a time-dependent query the effective weight of an edge is at least
\* its base weight times the priority factor (base weight, volume and capacity
\* not negative, priority factor in (0, 1]; the ordinary router has factor 1).
C12_NeverBelowBase ==
    (IsWeighing /\ call.time_dependent) =>
        /\ ret.ordinary >= Unit * TheEdge.distance_km
        /\ 10 * ret.emergency >= Unit * TheEdge.distance_km * call.priority

\* one vehicle an hour on a wide road, priority factor 0.5: just above the base
C12_Witness ==
    /\ IsWeighing /\ Congested /\ call.time_of_day = "morning_peak"
    /\ VolumeAt("morning_peak") = 1 /\ TheEdge.base_capacity_veh_hr = 2000
    /\ TheEdge.distance_km = 12 /\ call.priority = 5
    /\ ret.ordinary = 12 * Unit + 12 * 15
    /\ ret.emergency = 6 * Unit + 6 * 10

ZeroCapacityBusy ==
    /\ IsWeighing /\ Congested
    /\ TheEdge.base_capacity_veh_hr = 0
    /\ VolumeAt(call.time_of_day) > 0

\* C13 as stated: on an edge of capacity 0 with any positive volume the
\* congestion factor is the ceiling, 5.0 ordinary and 3.0 emergency.
C13_ZeroCapacitySaturates ==
    ZeroCapacityBusy =>
        /\ ret.ordinary = 5 * Unit * TheEdge.distance_km
        /\ 10 * ret.emergency = 3 * Unit * TheEdge.distance_km * call.priority

\* C13 amended: on an edge of capacity 0 the capacity counts as 1, so the
\* factor is min(1 + volume, 5.0) ordinary and min(1 + volume / 1.5, 3.0)
\* emergency: the ceiling from volume 4 (ordinary) and 3 (emergency) on, less
\* below; the effective weight is finite for every volume.
C13_ZeroCapacityCountsAsOne ==
    ZeroCapacityBusy =>
        LET v == VolumeAt(call.time_of_day)
            base == TheEdge.distance_km
        IN  /\ v >= 4 => ret.ordinary = 5 * Unit * base
            /\ v < 4 => ret.ordinary = (1 + v) * Unit * base
            /\ v >= 3 => 10 * ret.emergency = 3 * Unit * base * call.priority
            /\ v < 3 => 30 * ret.emergency = (3 + 2 * v) * Unit * base * call.priority

\* capacity 0 and two vehicles an hour: factor 3 ordinary, 7/3 emergency
C13_Witness ==
    /\ ZeroCapacityBusy /\ VolumeAt(call.time_of_day) = 2
    /\ TheEdge.distance_km = 5 /\ call.priority = 10
    /\ ret.ordinary = 15 * Unit
    /\ 3 * ret.emergency = 35 * Unit

\* C14: a_star_emergency_path called with a priority factor <= 0 computes no
\* path and no cost.
C14_NonPositivePriorityRejected ==
    (IsAStarCall /\ call.priority <= 0) => "path" \notin DOMAIN ret

UnknownLabel == call.time_dependent /\ call.time_of_day \notin TimesOfDay \cup {NoneTime}

\* what a router returns when source and target are in the graph and no path
\* joins them
NoPathResult == IF IsYenCall THEN <<>> ELSE NoneNone

\* C15: a query with K <= 0 (yen_k_shortest_paths) or with an unknown
\* time-of-day label (dijkstra_time_dependent, a_star_emergency_path) returns
\* no path, and its result differs from the result for 'no path exists'.
C15_InvalidParameterRejected ==
    /\ (IsYenCall /\ call.K <= 0) => (ret = <<>> /\ ret # NoPathResult)
    /\ ((IsDijkstraCall \/ IsAStarCall) /\ UnknownLabel) =>
          ("path" \notin DOMAIN ret /\ ret # NoPathResult)

ValidPair == has_node(graph, call.source) /\ has_node(graph, call.target)

\* C16: when the target cannot be reached from the source, each router ends
\* by returning its 'not found' value, (None, None) or the empty list; a Yen
\* call whose spur searches find no path still returns its list.
C16_UnreachableReturnsNotFound ==
    (call # Idle /\ ValidPair) =>
        /\ ~Reachable(graph, call.source, call.target) => ret = NoPathResult
        /\ (IsYenCall /\ call.K >= 1 /\ Reachable(graph, call.source, call.target)) =>
              (Len(ret) >= 1 /\ \A j \in 1..Len(ret) : ret[j][Len(ret[j])] = call.target)

\* a search that leaves the source and never meets the target
C16_Witness ==
    /\ IsDijkstraCall /\ ValidPair
    /\ ~Reachable(graph, call.source, call.target)
    /\ graph.adj[call.source] # <<>>
    /\ ret = NoneNone

\* C17: no call of a router changes the caller's graph: nodes, edges and edge
\* attributes after the call are those before it, whatever the outcome.
C17_GraphReadOnly == [][graph' = graph]_vars

\* Yen has returned two paths or more: the first edges of the accepted paths
\* were taken out of the copies, and the caller's graph still has them
C17_Witness ==
    /\ IsYenCall /\ Len(ret) >= 2
    /\ \A j \in 1..Len(ret) : \A i \in 1..(Len(ret[j]) - 1) :
          has_edge(graph, ret[j][i], ret[j][i + 1])

NoVolumes(G) ==
    [G EXCEPT !.data = [e \in DOMAIN G.data |-> [G.data[e] EXCEPT !.traffic = NoTraffic]]]

VolumesOn(G, e) == WithTraffic(NoVolumes(G), e, G.data[e].base_capacity_veh_hr,
                               TrafficProfile)

\* C19: yen_k_shortest_paths returns the same list on every graph that differs
\* from the caller's only in its traffic volumes.
C19_TrafficBlind ==
    IsYenCall =>
        \A G \in {NoVolumes(graph)} \cup { VolumesOn(graph, e) : e \in Edges(graph) } :
            yen_k_shortest_paths(G, call.source, call.target, call.K) = ret

\* two paths returned though the morning peak on one edge alone would send
\* the time-dependent router another way than the first of them
C19_Witness ==
    /\ IsYenCall /\ Len(ret) >= 2
    /\ \E e \in Edges(graph) :
          LET busy == dijkstra_time_dependent(VolumesOn(graph, e), call.source,
                                              call.target, TRUE, "morning_peak")
          IN  busy # NoneNone /\ busy.path # ret[1]

\* the effective weights of the query, and the cost under them of the path a
\* Dijkstra search over them finds
EmergencyWeights ==
    [e \in Edges(graph) |->
        get_dynamic_edge_weight(graph.data[e], call.time_dependent,
                                call.time_of_day, call.priority)]

DijkstraCost ==
    AStarLength(graph, nx_dijkstra_path(graph, call.source, call.target, EmergencyWeights),
                1, call.time_dependent, call.time_of_day, call.priority)

\* C20: a missing coordinate on a node or on the target makes the heuristic of
\* that pair 0 and the search still returns a path when there is one; when no
\* node has coordinates the returned cost is the cost of a Dijkstra search
\* over the same effective weights.
C20_MissingCoordinates ==
    (IsAStarCall /\ ValidPair) =>
        /\ \A n \in graph.nodes :
              (graph.pos[n] = NoCoord \/ graph.pos[call.target] = NoCoord) =>
                  heuristic_distance(graph, n, call.target) = 0
        /\ (~AllCoordinates /\ Reachable(graph, call.source, call.target)) =>
              /\ ret # NoneNone
              /\ ret.path[1] = call.source
              /\ ret.path[Len(ret.path)] = call.target
        /\ (graph.pos = NoCoordinates(graph.adj)
              /\ Reachable(graph, call.source, call.target)) =>
              ret.length = DijkstraCost

\* no node has coordinates and the answer is a detour cheaper than the road
\* from the source to the target
C20_Witness ==
    /\ IsAStarCall /\ ValidPair /\ call.priority > 0
    /\ graph.pos = NoCoordinates(graph.adj)
    /\ ret # NoneNone
    /\ Len(ret.path) >= 3
    /\ has_edge(graph, call.source, call.target)
    /\ ret.length < EmergencyWeights[<<call.source, call.target>>]

\* the emergency weight of an edge as the contract states it:
\* base * min(1 + volume / (capacity * 1.5), 3.0) * priorityFactor, a capacity
\* of 0 read as 1, when the query names a time of day whose volume the edge
\* carries; base * priorityFactor otherwise (in 1/Unit km, priority in tenths)
EmergencyContractWeight(data, time_dependent, time_of_day, priority) ==
    LET base == data.distance_km * Unit
        congested ==
            IF time_dependent /\ time_of_day \in TimesOfDay /\ data.traffic # NoTraffic
            THEN LET volume ==
                         IF time_of_day = "morning_peak" THEN data.traffic.morning_peak_veh_h
                         ELSE IF time_of_day = "afternoon" THEN data.traffic.afternoon_veh_h
                         ELSE IF time_of_day = "evening_peak"
                              THEN data.traffic.evening_peak_veh_h
                         ELSE data.traffic.night_veh_h
                     cap == IF data.base_capacity_veh_hr = 0 THEN 1
                            ELSE data.base_capacity_veh_hr
                 IN  IF volume >= 3 * cap THEN 3 * base
                     ELSE (base * (3 * cap + 2 * volume)) \div (3 * cap)
            ELSE base
    IN  (congested * priority) \div 10

EmergencyContractCost(p) ==
    SumOver([i \in 1..(Len(p) - 1) |->
                EmergencyContractWeight(graph.data[<<p[i], p[i + 1]>>], call.time_dependent,
                                        call.time_of_day, call.priority)],
            1..(Len(p) - 1))

\* C21: the cost a_star_emergency_path returns is the sum, over the edges of
\* the returned path, of base * min(1 + volume / (capacity * 1.5), 3.0) *
\* priorityFactor when a time of day is given and the edge carries that
\* volume, and of base * priorityFactor otherwise, capacity 0 read as 1.
C21_EmergencyCost ==
    (IsAStarCall /\ ret # NoneNone) => ret.length = EmergencyContractCost(ret.path)

\* a returned path with an edge congested below the cap (afternoon, 500 on a
\* capacity of 1000) at priority 0.5
C21_Witness ==
    /\ IsAStarCall /\ ret # NoneNone
    /\ call.time_dependent /\ call.time_of_day = "afternoon" /\ call.priority = 5
    /\ Len(ret.path) >= 3
    /\ \E i \in 1..(Len(ret.path) - 1) :
          LET data == graph.data[<<ret.path[i], ret.path[i + 1]>>]
          IN  data.traffic # NoTraffic /\ data.base_capacity_veh_hr = 1000
    /\ ret.length > 0

IsLoad == call # Idle /\ call.op \in Loaders /\ graph # NoGraph

\* the ids given by the node records and the facility records of the call
KnownIds ==
    { call.road_data.nodes[i].ID : i \in 1..Len(call.road_data.nodes) }
    \cup { call.facilities_data[i].ID : i \in 1..Len(call.facilities_data) }

\* C22: after a load, every road edge record (u, v) of the input is in the
\* graph in both directions, (u, v) and (v, u), in the traffic graphs and in
\* the emergency graph.
C22_BothDirections ==
    IsLoad =>
        \A i \in 1..Len(call.road_data.edges) :
            /\ has_edge(graph, call.road_data.edges[i].FromID, call.road_data.edges[i].ToID)
            /\ has_edge(graph, call.road_data.edges[i].ToID, call.road_data.edges[i].FromID)

\* C23: after a load, the nodes of the graph are nodes given by node or
\* facility records, and no edge has an endpoint outside them: an edge record
\* with an unknown endpoint was skipped.
C23_UnknownEndpointSkipped ==
    IsLoad =>
        /\ graph.nodes \subseteq KnownIds
        /\ \A e \in Edges(graph) : e[1] \in KnownIds /\ e[2] \in KnownIds

\* the n least costs, in rising order, among the paths of P
RECURSIVE LeastCosts(_, _)
LeastCosts(P, n) ==
    IF n = 0 \/ P = {} THEN <<>>
    ELSE LET p == CHOOSE q \in P : \A r \in P : BaseCost(q) <= BaseCost(r)
         IN  <<BaseCost(p)>> \o LeastCosts(P \ {p}, n - 1)

ReturnedCosts == [j \in 1..Len(ret) |-> BaseCost(ret[j])]

\* C24: the costs of the paths yen_k_shortest_paths returns are the min(K, m)
\* least costs among the m loopless paths from the source to the target.
C24_KCheapestLoopless ==
    (IsYenCall /\ ValidPair /\ call.K >= 1) =>
        ReturnedCosts = LeastCosts(SimplePaths(graph, call.source, call.target), call.K)

IsKruskalCall == call # Idle /\ call.op = "kruskal"

\* the nodes joined to n by the roads of E
RECURSIVE Joined(_, _)
Joined(E, S) ==
    LET T == S \cup { e[2] : e \in { f \in E : f[1] \in S } }
                \cup { e[1] : e \in { f \in E : f[2] \in S } }
    IN  IF T = S THEN S ELSE Joined(E, T)

\* the number of connected components of the graph (N, E)
NumComponents(N, E) == Cardinality({ Joined(E, {n}) : n \in N })

NoCycle(E) == \A e \in E : e[2] \notin Joined(E \ {e}, {e[1]})

\* the roads kruskal_mst_modified takes into account: those that carry a
\* weight, potential roads only when the call asks for them
ConsideredRoads ==
    { e \in graph.roads :
        /\ graph.data[e].type # "unknown"
        /\ call.consider_potential_roads \/ graph.data[e].type # "potential_road" }

Vehicles == sim.emergency_vehicles

StatusOfVehicle(id) == Vehicles[CHOOSE j \in 1..Len(Vehicles) : Vehicles[j].id = id].status

\* an incident still assigned to a vehicle that is available again
Abandoned(k) ==
    /\ k <= Len(sim.incidents)
    /\ sim.incidents[k].status = "vehicle_assigned"
    /\ StatusOfVehicle(sim.incidents[k].assigned_vehicle) = "available"

NoSharedVehicle ==
    \A k, m \in 1..Len(sim.incidents) :
        (k # m /\ sim.incidents[k].status = "vehicle_assigned"
               /\ sim.incidents[m].status = "vehicle_assigned") =>
            sim.incidents[k].assigned_vehicle # sim.incidents[m].assigned_vehicle

\* the vehicle a step has dispatched to the k-th incident was available
\* before the step
DispatchedWhileAvailable ==
    \A k \in 1..Len(sim'.incidents) :
        (/\ sim'.incidents[k].assigned_vehicle # NoNode
         /\ k <= Len(sim.incidents) => sim.incidents[k].assigned_vehicle = NoNode) =>
            StatusOfVehicle(sim'.incidents[k].assigned_vehicle) = "available"

\* C27: no two incidents with status vehicle_assigned have the same
\* assigned_vehicle, and a vehicle is dispatched to an incident only while
\* its status is available.
C27_OneIncidentPerVehicle == [](NoSharedVehicle) /\ [][DispatchedWhileAvailable]_vars

IsAnalyze == call # Idle /\ call.op = "analyze"

\* the incidents a vehicle picked up and then brought to its facility, as
\* the simulator reported them
Delivered ==
    { p \in 1..Len(sim.log) :
        /\ sim.log[p].event = "picked_up"
        /\ \E a \in (p + 1)..Len(sim.log) :
              /\ sim.log[a].event = "arrived_at_facility"
              /\ sim.log[a].vehicle = sim.log[p].vehicle }

\* C26: the analysis of the history of a run counts, in
\* num_incidents_processed_for_timing and total_resolution_times_steps, every
\* incident whose vehicle reached it and then arrived at its facility.
C26_DeliveriesCounted ==
    IsAnalyze =>
        /\ ret.num_incidents_processed_for_timing = Cardinality(Delivered)
        /\ Len(ret.total_resolution_times_steps) = Cardinality(Delivered)

\* at most num_incidents * 2 incidents are ever made
IncidentSlots == 1..4

IsAssigned(k) == k <= Len(sim.incidents) /\ sim.incidents[k].status = "vehicle_assigned"

IsResolved(k) == k <= Len(sim.incidents) /\ sim.incidents[k].status = "resolved"

\* the run ended while the vehicle was still on its way to the incident
CutShort(k) ==
    /\ IsAssigned(k)
    /\ ~sim.running
    /\ \E j \in 1..Len(Vehicles) :
          /\ Vehicles[j].id = sim.incidents[k].assigned_vehicle
          /\ Vehicles[j].status = "enroute_to_incident"
          /\ Vehicles[j].incident_target = sim.incidents[k].location

\* C28: an incident that reaches vehicle_assigned reaches resolved, unless the
\* run ends before its vehicle is at the incident.
C28_AssignedEventuallyResolved ==
    \A k \in IncidentSlots : IsAssigned(k) ~> (IsResolved(k) \/ CutShort(k))

\* the time of day of the round of run_simulation that starts in this state
RoundTod == traffic_tod(sim.simulation_steps, sim.i)

\* a tenth of a capacity, rounded up
CeilTenth(capacity) == (capacity + 9) \div 10

\* the vehicles the round takes along edge e
MovedOnto(e) ==
    { j \in 1..Len(sim.vehicles) :
        /\ sim.vehicles[j].current_node = e[1]
        /\ sim'.vehicles[j].current_node = e[2] }

\* the round moves at most a tenth of its capacity onto an edge, and
\* current_vehicles_on_edge counts the vehicles moved
WithinShare ==
    \A e \in DOMAIN graph.data :
        /\ sim'.on_edge[e] = Cardinality(MovedOnto(e))
        /\ Cardinality(MovedOnto(e)) <= CeilTenth(edge_capacity(graph.data[e], RoundTod))

\* the j-th vehicle has an edge ahead of it in the round
HasEdgeAhead(j) ==
    /\ sim.vehicles[j].status # "arrived"
    /\ sim'.vehicles[j].path # NoPath
    /\ sim.vehicles[j].path_index < Len(sim'.vehicles[j].path) - 1

EdgeAhead(j) ==
    <<sim'.vehicles[j].path[sim.vehicles[j].path_index + 1],
      sim'.vehicles[j].path[sim.vehicles[j].path_index + 2]>>

\* the vehicles before the j-th have filled the edge ahead of it
FoundFull(j) ==
    /\ HasEdgeAhead(j)
    /\ Cardinality({ m \in MovedOnto(EdgeAhead(j)) : m < j }) * 10 >=
           edge_capacity(graph.data[EdgeAhead(j)], RoundTod)

FullStays ==
    \A j \in 1..Len(sim.vehicles) :
        FoundFull(j) =>
            /\ sim'.vehicles[j].current_node = sim.vehicles[j].current_node
            /\ sim'.vehicles[j].path_index = sim.vehicles[j].path_index

ArrivedAtDestination ==
    \A j \in 1..Len(sim'.vehicles) :
        sim'.vehicles[j].status = "arrived" =>
            sim'.vehicles[j].current_node = sim'.vehicles[j].destination_node

\* C30: in every step the vehicles moved onto an edge, which
\* current_vehicles_on_edge counts, are at most a tenth of the edge's capacity
\* for that step, rounded up; a vehicle that finds its edge full keeps its node
\* and its path_index; a vehicle marked arrived is at its destination.
C30_StepWithinCapacity == [][WithinShare /\ FullStays /\ ArrivedAtDestination]_vars

\* a vehicle has not left its start node, the edge ahead of it was filled by
\* another vehicle in the last round, and a vehicle has arrived
C30_Witness ==
    /\ sim.i >= 1
    /\ \E j \in 1..Len(sim.vehicles) :
          LET vehicle == sim.vehicles[j]
          IN  /\ vehicle.status = "moving"
              /\ vehicle.path_index = 0
              /\ sim.on_edge[<<vehicle.path[1], vehicle.path[2]>>] >= 1
    /\ \E j \in 1..Len(sim.vehicles) : sim.vehicles[j].status = "arrived"

====
